---- MODULE Spec2Model ----
(***************************************************************************)
(* Model of the accessibility pipeline of AccessDocs: the ARIA enhancer    *)
(* (accessibility/aria.js), the accessibility checker                      *)
(* (src/accessibility/checker.js) and processFile of generator.js.         *)
(*                                                                         *)
(* Strings are sequences of tokens: a token is a maximal run of word       *)
(* characters or a single other character (" ", "#", ",", ...), so that    *)
(* startsWith, split(' '), trim, includes and string concatenation are     *)
(* computed on the token sequence.  The empty string and a missing value   *)
(* (null / undefined) are both <<>>; presence of an attribute is kept      *)
(* apart by the attribute map's domain.                                    *)
(*                                                                         *)
(* A document is a sequence of nodes; node 1 is the root the parser        *)
(* returns, and kids lists give the element children in order.  An         *)
(* element's own text is kept in its text field and precedes its element   *)
(* children (the input documents have no text after a child element).      *)
(***************************************************************************)
EXTENDS Integers, Sequences, FiniteSets, TLC

----------------------------------------------------------------------------
(* Strings *)

SP == " "

\* String.prototype.trim() === '' : only whitespace tokens
IsBlank(s) == \A i \in 1..Len(s) : s[i] = SP

RECURSIVE TrimLeft(_)
TrimLeft(s) == IF s # <<>> /\ Head(s) = SP THEN TrimLeft(Tail(s)) ELSE s

RECURSIVE TrimRight(_)
TrimRight(s) ==
    IF s # <<>> /\ s[Len(s)] = SP THEN TrimRight(SubSeq(s, 1, Len(s) - 1)) ELSE s

Trim(s) == TrimRight(TrimLeft(s))

\* String.prototype.toLowerCase(), token by token
LowerTok(w) ==
    CASE w = "Intro" -> "intro"
      [] w = "Setup" -> "setup"
      [] w = "Docs" -> "docs"
      [] w = "Skip" -> "skip"
      [] w = "External" -> "external"
      [] w = "Image" -> "image"
      [] w = "Hello" -> "hello"
      [] w = "World" -> "world"
      [] w = "Foo" -> "foo"
      [] OTHER -> w

ToLower(s) == [i \in 1..Len(s) |-> LowerTok(s[i])]

\* String.prototype.includes(word) for a single-token word
Includes(s, w) == \E i \in 1..Len(s) : s[i] = w

\* String.prototype.includes(phrase) for a phrase of several tokens
IncludesSeq(s, ph) ==
    \E i \in 1..Len(s) :
        /\ i + Len(ph) - 1 <= Len(s)
        /\ SubSeq(s, i, i + Len(ph) - 1) = ph

\* String.prototype.split(' '): the pieces between single spaces, empty
\* pieces included ("a  b" gives "a", "", "b"; "" gives one empty piece)
RECURSIVE SplitAcc(_, _)
SplitAcc(s, cur) ==
    IF s = <<>> THEN <<cur>>
    ELSE IF Head(s) = SP THEN <<cur>> \o SplitAcc(Tail(s), <<>>)
    ELSE SplitAcc(Tail(s), Append(cur, Head(s)))

Split(s) == SplitAcc(s, <<>>)

----------------------------------------------------------------------------
(* Trees *)

NoAttrs == [a \in {} |-> <<>>]

Node(tag, attrs, text) == [tag |-> tag, attrs |-> attrs, text |-> text, kids |-> <<>>]

Root == 1

EmptyTree == << Node("#root", NoAttrs, <<>>) >>

HasAttr(t, n, a) == a \in DOMAIN t[n].attrs

\* getAttribute: the value, or null (modelled <<>>) when the attribute is absent
GetAttr(t, n, a) == IF HasAttr(t, n, a) THEN t[n].attrs[a] ELSE <<>>

SetAttr(t, n, a, v) == [t EXCEPT ![n].attrs = (a :> v) @@ @]

\* element.id reflects the id attribute
ElId(t, n) == GetAttr(t, n, "id")

RECURSIVE PreSeq(_, _)
PreSeq(t, ks) ==
    IF ks = <<>> THEN <<>>
    ELSE <<Head(ks)>> \o PreSeq(t, t[Head(ks)].kids) \o PreSeq(t, Tail(ks))

\* the elements below n, in document order (what querySelectorAll walks)
Descendants(t, n) == PreSeq(t, t[n].kids)

Order(t) == Descendants(t, Root)

InSeq(x, s) == \E i \in 1..Len(s) : s[i] = x

\* parentNode, 0 for a detached node or the root
ParentOf(t, n) ==
    IF \E p \in 1..Len(t) : InSeq(n, t[p].kids)
    THEN CHOOSE p \in 1..Len(t) : InSeq(n, t[p].kids)
    ELSE 0

RECURSIVE TextOfSeq(_, _)
TextOfSeq(t, ks) ==
    IF ks = <<>> THEN <<>>
    ELSE t[Head(ks)].text \o TextOfSeq(t, t[Head(ks)].kids) \o TextOfSeq(t, Tail(ks))

\* textContent
TextContent(t, n) == t[n].text \o TextOfSeq(t, t[n].kids)

\* classList
ClassList(t, n) == IF HasAttr(t, n, "class") THEN
                       SelectSeq(Split(t[n].attrs["class"]), LAMBDA c : c # <<>>)
                   ELSE <<>>

HasClass(t, n, c) == InSeq(<<c>>, ClassList(t, n))

\* classList.add
AddClass(t, n, c) ==
    IF HasClass(t, n, c) THEN t
    ELSE IF GetAttr(t, n, "class") = <<>> THEN SetAttr(t, n, "class", <<c>>)
    ELSE SetAttr(t, n, "class", GetAttr(t, n, "class") \o <<SP, c>>)

\* querySelectorAll(tag list)
ByTag(t, tags) == SelectSeq(Order(t), LAMBDA n : t[n].tag \in tags)

\* querySelector: the first match, 0 for null
FirstOf(s) == IF s = <<>> THEN 0 ELSE Head(s)

\* getElementById: the first element in document order with that id; the empty
\* string matches nothing
GetElementById(t, id) ==
    IF id = <<>> THEN 0
    ELSE FirstOf(SelectSeq(Order(t), LAMBDA n : HasAttr(t, n, "id") /\ ElId(t, n) = id))

\* createElement: a new detached element, appended to the node table
CreateElement(t, tag) == Append(t, Node(tag, NoAttrs, <<>>))

Detach(t, c) ==
    LET p == ParentOf(t, c) IN
    IF p = 0 THEN t
    ELSE [t EXCEPT ![p].kids = SelectSeq(@, LAMBDA k : k # c)]

\* appendChild moves the node from wherever it is to the end of p
AppendChild(t, p, c) == [Detach(t, c) EXCEPT ![p].kids = Append(@, c)]

\* insertBefore(c, p.firstChild)
InsertFirst(t, p, c) == [Detach(t, c) EXCEPT ![p].kids = <<c>> \o @]

\* closest(tag): n or its nearest ancestor with that tag, 0 for null
RECURSIVE Closest(_, _, _)
Closest(t, n, tag) ==
    IF n = 0 THEN 0
    ELSE IF t[n].tag = tag THEN n
    ELSE Closest(t, ParentOf(t, n), tag)

\* previousElementSibling, 0 for null
PrevSibling(t, n) ==
    LET p == ParentOf(t, n) IN
    IF p = 0 THEN 0
    ELSE LET i == CHOOSE j \in 1..Len(t[p].kids) : t[p].kids[j] = n
         IN IF i = 1 THEN 0 ELSE t[p].kids[i - 1]

----------------------------------------------------------------------------
(* HTML text: a sequence of open-tag, text and close-tag tokens *)

VoidTags == {"img", "input", "meta", "br"}

Open(tag, attrs) == [k |-> "open", tag |-> tag, attrs |-> attrs, text |-> <<>>]
Text(s) == [k |-> "text", tag |-> "", attrs |-> NoAttrs, text |-> s]
Close(tag) == [k |-> "close", tag |-> tag, attrs |-> NoAttrs, text |-> <<>>]

RECURSIVE SerSeq(_, _)
SerSeq(t, ks) ==
    IF ks = <<>> THEN <<>>
    ELSE LET n == Head(ks) IN
         <<Open(t[n].tag, t[n].attrs)>>
         \o (IF t[n].text = <<>> THEN <<>> ELSE <<Text(t[n].text)>>)
         \o SerSeq(t, t[n].kids)
         \o (IF t[n].tag \in VoidTags THEN <<>> ELSE <<Close(t[n].tag)>>)
         \o SerSeq(t, Tail(ks))

\* parsedHtml.toString()
Serialize(t) == SerSeq(t, t[Root].kids)

RECURSIVE ParseRec(_, _, _)
ParseRec(toks, t, stack) ==
    IF toks = <<>> THEN t
    ELSE LET tk == Head(toks)
             top == Head(stack)
             id == Len(t) + 1
         IN CASE tk.k = "open" ->
                   ParseRec(Tail(toks),
                            [Append(t, Node(tk.tag, tk.attrs, <<>>))
                                EXCEPT ![top].kids = Append(@, id)],
                            IF tk.tag \in VoidTags THEN stack ELSE <<id>> \o stack)
              [] tk.k = "text" ->
                   ParseRec(Tail(toks), [t EXCEPT ![top].text = @ \o tk.text], stack)
              [] OTHER ->
                   ParseRec(Tail(toks), t, Tail(stack))

\* HTMLParser.parse(html): the tree of the markup as written, under a root
ParseFragment(toks) == ParseRec(toks, EmptyTree, <<Root>>)

\* new JSDOM(html): as ParseFragment, and the HTML parser supplies the html,
\* head and body elements the markup leaves out
ParseDocument(toks) ==
    LET t0 == ParseFragment(toks)
        top == t0[Root].kids
        htmls == SelectSeq(top, LAMBDA n : t0[n].tag = "html")
    IN IF htmls = <<>> THEN
           LET h == Len(t0) + 1
               hd == h + 1
               b == h + 2
               t1 == CreateElement(CreateElement(CreateElement(t0, "html"), "head"), "body")
           IN [t1 EXCEPT ![Root].kids = <<h>>, ![h].kids = <<hd, b>>, ![b].kids = top]
       ELSE
           LET h == Head(htmls)
               hk == t0[h].kids
               heads == SelectSeq(hk, LAMBDA n : t0[n].tag = "head")
               bodies == SelectSeq(hk, LAMBDA n : t0[n].tag = "body")
               rest == SelectSeq(hk, LAMBDA n : t0[n].tag \notin {"head", "body"})
               t1 == IF heads = <<>> THEN CreateElement(t0, "head") ELSE t0
               hd == IF heads = <<>> THEN Len(t1) ELSE Head(heads)
               t2 == IF bodies = <<>> THEN CreateElement(t1, "body") ELSE t1
               b == IF bodies = <<>> THEN Len(t2) ELSE Head(bodies)
           IN [t2 EXCEPT ![h].kids = <<hd, b>>,
                         ![b].kids = IF bodies = <<>> THEN rest ELSE @ \o rest]

----------------------------------------------------------------------------
(* Selectors and small string helpers used by the enhancer *)

StartsWith(s, p) == Len(s) >= Len(p) /\ SubSeq(s, 1, Len(p)) = p

HeadingTags == {"h1", "h2", "h3", "h4", "h5", "h6"}

\* parseInt(heading.tagName.charAt(1))
LevelOf(tag) ==
    CASE tag = "h1" -> 1 [] tag = "h2" -> 2 [] tag = "h3" -> 3
      [] tag = "h4" -> 4 [] tag = "h5" -> 5 [] tag = "h6" -> 6

\* characters that are neither \w, \s nor "-"
Punct == {",", "!", ".", ":", "/", "#", "(", ")", "?", "\""}

IsWordTok(w) == w \notin Punct /\ w # SP /\ w # "-"

\* replace(/\s+/g, '-') and replace(/-+/g, '-'): a run becomes one hyphen
RECURSIVE SquashRuns(_, _)
SquashRuns(s, run) ==
    IF s = <<>> THEN <<>>
    ELSE IF Head(s) \in run THEN
             IF Len(s) > 1 /\ s[2] \in run THEN SquashRuns(Tail(s), run)
             ELSE <<"-">> \o SquashRuns(Tail(s), run)
    ELSE <<Head(s)>> \o SquashRuns(Tail(s), run)

\* adjacent word characters form one token
RECURSIVE Canon(_)
Canon(s) ==
    IF Len(s) < 2 THEN s
    ELSE IF IsWordTok(s[1]) /\ IsWordTok(s[2])
         THEN Canon(<<s[1] \o s[2]>> \o SubSeq(s, 3, Len(s)))
         ELSE <<s[1]>> \o Canon(Tail(s))

\* the id enhanceHeadings derives from the heading text
Slug(text) ==
    LET lower == ToLower(Trim(text))
        kept == Canon(SelectSeq(lower, LAMBDA w : w \notin Punct))
    IN SquashRuns(SquashRuns(kept, {SP}), {"-"})

MainContentId == <<"main", "-", "content">>

----------------------------------------------------------------------------
(* The enhancer, accessibility/aria.js *)

ensureHtmlLangAttribute(t, language) ==
    LET htmlElement == FirstOf(ByTag(t, {"html"})) IN
    IF htmlElement # 0 THEN SetAttr(t, htmlElement, "lang", language) ELSE t

\* ensureDocumentTitle that makes a head at the top of a tree without html
ensureDocumentTitleAnywhere(t, title) ==
    IF title = <<>> THEN t
    ELSE
    LET head0 == FirstOf(ByTag(t, {"head"}))
        htmlElement == FirstOf(ByTag(t, {"html"}))
        parent == IF htmlElement # 0 THEN htmlElement ELSE Root
        t1 == IF head0 # 0 THEN t
              ELSE InsertFirst(CreateElement(t, "head"), parent, Len(t) + 1)
        headElement == IF head0 # 0 THEN head0 ELSE Len(t) + 1
        titleElement == FirstOf(SelectSeq(Descendants(t1, headElement),
                                          LAMBDA n : t1[n].tag = "title"))
    IN IF titleElement = 0 THEN
           AppendChild([CreateElement(t1, "title") EXCEPT ![Len(t1) + 1].text = title],
                       headElement, Len(t1) + 1)
       ELSE IF IsBlank(TextContent(t1, titleElement)) THEN
           [t1 EXCEPT ![titleElement].text = title, ![titleElement].kids = <<>>]
       ELSE t1

ensureDocumentTitle(t, title) ==
    IF title = <<>> THEN t
    ELSE
    LET head0 == FirstOf(ByTag(t, {"head"}))
        htmlElement == FirstOf(ByTag(t, {"html"}))
    IN IF head0 = 0 /\ htmlElement = 0 THEN t
       ELSE
       LET t1 == IF head0 # 0 THEN t
                 ELSE InsertFirst(CreateElement(t, "head"), htmlElement, Len(t) + 1)
           headElement == IF head0 # 0 THEN head0 ELSE Len(t) + 1
           titleElement == FirstOf(SelectSeq(Descendants(t1, headElement),
                                             LAMBDA n : t1[n].tag = "title"))
       IN IF titleElement = 0 THEN
              LET n == Len(t1) + 1
                  t2 == [CreateElement(t1, "title") EXCEPT ![n].text = title]
              IN AppendChild(t2, headElement, n)
          ELSE IF IsBlank(TextContent(t1, titleElement)) THEN
              [t1 EXCEPT ![titleElement].text = title, ![titleElement].kids = <<>>]
          ELSE t1

\* a move loop that puts each child in front of the ones already moved
MoveChildrenReversed(t, body, newMain) ==
    [t EXCEPT ![newMain].text = @ \o t[body].text,
              ![newMain].kids = [i \in 1..Len(t[body].kids) |->
                                    t[body].kids[Len(t[body].kids) + 1 - i]] \o @,
              ![body].text = <<>>,
              ![body].kids = <<>>]

\* while (body.firstChild) newMain.appendChild(body.firstChild)
RECURSIVE MoveChildren(_, _, _)
MoveChildren(t, body, newMain) ==
    IF t[body].text # <<>> THEN
        MoveChildren([t EXCEPT ![newMain].text = @ \o t[body].text, ![body].text = <<>>],
                     body, newMain)
    ELSE IF t[body].kids # <<>> THEN
        MoveChildren(AppendChild(t, newMain, Head(t[body].kids)), body, newMain)
    ELSE t

\* '.content, #content, article, .main, #main'
IsMainCandidate(t, n) ==
    \/ HasClass(t, n, "content")
    \/ (HasAttr(t, n, "id") /\ ElId(t, n) = <<"content">>)
    \/ t[n].tag = "article"
    \/ HasClass(t, n, "main")
    \/ (HasAttr(t, n, "id") /\ ElId(t, n) = <<"main">>)

\* ResolveMain that gives the resolved element the default id whatever id it has
ResolveMainDefaultId(t) ==
    LET main0 == FirstOf(ByTag(t, {"main"}))
        possibleMainElements == SelectSeq(Order(t), LAMBDA n : IsMainCandidate(t, n))
        body == FirstOf(ByTag(t, {"body"}))
        t1 == IF main0 # 0 THEN t
              ELSE IF possibleMainElements # <<>> THEN
                  SetAttr(t, Head(possibleMainElements), "role", <<"main">>)
              ELSE IF body # 0 THEN
                  AppendChild(MoveChildren(CreateElement(t, "main"), body, Len(t) + 1),
                              body, Len(t) + 1)
              ELSE t
        mainElement == IF main0 # 0 THEN main0
                       ELSE IF possibleMainElements # <<>> THEN Head(possibleMainElements)
                       ELSE IF body # 0 THEN Len(t) + 1
                       ELSE 0
    IN IF mainElement = 0 THEN t1
       ELSE LET t2 == SetAttr(t1, mainElement, "role", <<"main">>)
            IN SetAttr(t2, mainElement, "id", MainContentId)

\* lines 92-129: find or make the main element and give it role and id
ResolveMain(t) ==
    LET main0 == FirstOf(ByTag(t, {"main"}))
        possibleMainElements == SelectSeq(Order(t), LAMBDA n : IsMainCandidate(t, n))
        body == FirstOf(ByTag(t, {"body"}))
        t1 == IF main0 # 0 THEN t
              ELSE IF possibleMainElements # <<>> THEN
                  SetAttr(t, Head(possibleMainElements), "role", <<"main">>)
              ELSE IF body # 0 THEN
                  AppendChild(MoveChildren(CreateElement(t, "main"), body, Len(t) + 1),
                              body, Len(t) + 1)
              ELSE t
        mainElement == IF main0 # 0 THEN main0
                       ELSE IF possibleMainElements # <<>> THEN Head(possibleMainElements)
                       ELSE IF body # 0 THEN Len(t) + 1
                       ELSE 0
    IN IF mainElement = 0 THEN t1
       ELSE LET t2 == SetAttr(t1, mainElement, "role", <<"main">>)
            IN IF ElId(t2, mainElement) = <<>>
               THEN SetAttr(t2, mainElement, "id", MainContentId)
               ELSE t2

RECURSIVE NavLoop(_, _)
NavLoop(t, navs) ==
    IF navs = <<>> THEN t
    ELSE NavLoop(IF ~HasAttr(t, Head(navs), "aria-label")
                 THEN SetAttr(t, Head(navs), "aria-label", <<"Main", SP, "Navigation">>)
                 ELSE t,
                 Tail(navs))

RECURSIVE AsideLoop(_, _, _)
AsideLoop(t, asides, i) ==
    IF i > Len(asides) THEN t
    ELSE LET aside == asides[i]
             t1 == SetAttr(t, aside, "role", <<"complementary">>)
             t2 == IF ~HasAttr(t1, aside, "aria-label")
                   THEN SetAttr(t1, aside, "aria-label",
                                <<"Complementary", SP, "Content", SP, ToString(i)>>)
                   ELSE t1
         IN AsideLoop(t2, asides, i + 1)

\* lines 132-135: the first header gets role banner
HeaderRole(t) ==
    LET headerElement == FirstOf(ByTag(t, {"header"})) IN
    IF headerElement # 0 THEN SetAttr(t, headerElement, "role", <<"banner">>) ELSE t

\* lines 138-143
NavLabels(t) == NavLoop(t, ByTag(t, {"nav"}))

\* lines 146-149: the first footer gets role contentinfo
FooterRole(t) ==
    LET footerElement == FirstOf(ByTag(t, {"footer"})) IN
    IF footerElement # 0 THEN SetAttr(t, footerElement, "role", <<"contentinfo">>) ELSE t

\* lines 152-160
AsideRoles(t) == AsideLoop(t, ByTag(t, {"aside"}), 1)

addDocumentLandmarks(t) == AsideRoles(FooterRole(NavLabels(HeaderRole(ResolveMain(t)))))

HeadingStep(t, heading) ==
    LET t1 == IF ElId(t, heading) = <<>>
              THEN SetAttr(t, heading, "id", Slug(TextContent(t, heading)))
              ELSE t
        t2 == SetAttr(t1, heading, "tabindex", <<"-1">>)
    IN IF GetAttr(t2, heading, "role") = <<"heading">> /\ ~HasAttr(t2, heading, "aria-level")
       THEN SetAttr(t2, heading, "aria-level", <<ToString(LevelOf(t2[heading].tag))>>)
       ELSE t2

RECURSIVE HeadingLoop(_, _)
HeadingLoop(t, hs) == IF hs = <<>> THEN t ELSE HeadingLoop(HeadingStep(t, Head(hs)), Tail(hs))

enhanceHeadings(t) == HeadingLoop(t, ByTag(t, HeadingTags))

IsExternalHref(href) ==
    \/ StartsWith(href, <<"http", ":", "/", "/">>)
    \/ StartsWith(href, <<"https", ":", "/", "/">>)

\* link.querySelector('i.external, .fa-external-link, .icon-external')
HasExternalIcon(t, link) ==
    \E i \in 1..Len(Descendants(t, link)) :
        LET n == Descendants(t, link)[i] IN
        \/ (t[n].tag = "i" /\ HasClass(t, n, "external"))
        \/ HasClass(t, n, "fa-external-link")
        \/ HasClass(t, n, "icon-external")

ExternalSuffix == <<SP, "(", "external", SP, "link", ")">>

\* lines 207-222
LinkExternal(t, link, href) ==
    IF ~IsExternalHref(href) THEN t
    ELSE LET t1 == IF GetAttr(t, link, "rel") = <<>>
                   THEN SetAttr(t, link, "rel", <<"noopener", SP, "noreferrer">>)
                   ELSE t
             hasExternalIndicator ==
                 \/ Includes(ToLower(TextContent(t1, link)), "external")
                 \/ HasExternalIcon(t1, link)
         IN IF ~hasExternalIndicator /\ GetAttr(t1, link, "aria-label") = <<>>
            THEN SetAttr(t1, link, "aria-label", TextContent(t1, link) \o ExternalSuffix)
            ELSE t1

\* lines 225-240
LinkAnchor(t, link, href) ==
    IF ~StartsWith(href, <<"#">>) THEN t
    ELSE LET targetElement == GetElementById(t, Tail(href)) IN
         IF targetElement = 0 THEN t
         ELSE LET t1 == IF ~HasAttr(t, targetElement, "tabindex")
                        THEN SetAttr(t, targetElement, "tabindex", <<"-1">>)
                        ELSE t
              IN IF GetAttr(t1, link, "aria-label") = <<>>
                 THEN SetAttr(t1, link, "aria-label",
                              <<"Jump", SP, "to", SP>> \o TextContent(t1, link))
                 ELSE t1

\* lines 243-253
LinkText(t, link) ==
    IF IsBlank(TextContent(t, link)) /\ ~HasAttr(t, link, "aria-label") THEN
        LET img == FirstOf(SelectSeq(Descendants(t, link), LAMBDA n : t[n].tag = "img")) IN
        IF img # 0 /\ GetAttr(t, img, "alt") # <<>>
        THEN SetAttr(t, link, "aria-label", GetAttr(t, img, "alt"))
        ELSE SetAttr(AddClass(t, link, "a11y-warning"), link, "data-a11y-warning",
                     <<"Link", SP, "has", SP, "no", SP, "accessible", SP, "text">>)
    ELSE t

LinkStep(t, link) ==
    LET href == GetAttr(t, link, "href") IN
    IF href = <<>> THEN t
    ELSE LinkText(LinkAnchor(LinkExternal(t, link, href), link, href), link)

RECURSIVE LinkLoop(_, _)
LinkLoop(t, links) == IF links = <<>> THEN t ELSE LinkLoop(LinkStep(t, Head(links)), Tail(links))

enhanceLinks(t) == LinkLoop(t, ByTag(t, {"a"}))

\* `prefix-${Math.random().toString(36).substr(2, 9)}`: the passes that draw
\* random ids carry the tree and the draws still to come as [t, r]
RandomId(prefix, r) == prefix \o <<"-">> \o Head(r)

RECURSIVE SetAll(_, _, _, _)
SetAll(t, ns, a, v) == IF ns = <<>> THEN t ELSE SetAll(SetAttr(t, Head(ns), a, v), Tail(ns), a, v)

RECURSIVE ScopeLoop(_, _)
ScopeLoop(t, ths) ==
    IF ths = <<>> THEN t
    ELSE ScopeLoop(SetAttr(t, Head(ths), "scope",
                           IF GetAttr(t, Head(ths), "scope") # <<>>
                           THEN GetAttr(t, Head(ths), "scope") ELSE <<"col">>),
                   Tail(ths))

WithTag(t, n, tag) == SelectSeq(Descendants(t, n), LAMBDA k : t[k].tag = tag)

\* lines 275-289
TableCaption(s, table) ==
    LET t == s.t
        potentialCaption == PrevSibling(t, table)
    IN IF WithTag(t, table, "caption") # <<>> THEN s
       ELSE IF potentialCaption # 0 /\ t[potentialCaption].tag \in HeadingTags THEN
           LET s1 == IF ElId(t, potentialCaption) = <<>>
                     THEN [t |-> SetAttr(t, potentialCaption, "id",
                                         RandomId(<<"table", "-", "heading">>, s.r)),
                           r |-> Tail(s.r)]
                     ELSE s
           IN [s1 EXCEPT !.t = SetAttr(@, table, "aria-labelledby", ElId(s1.t, potentialCaption))]
       ELSE IF ~HasAttr(t, table, "aria-label") THEN
           [s EXCEPT !.t = SetAttr(@, table, "aria-label", <<"Table">>)]
       ELSE s

TableStep(s, table) ==
    LET t1 == SetAttr(s.t, table, "role", <<"table">>)
        t2 == ScopeLoop(t1, WithTag(t1, table, "th"))
        s3 == TableCaption([s EXCEPT !.t = t2], table)
        t4 == SetAll(s3.t, WithTag(s3.t, table, "tr"), "role", <<"row">>)
    IN [s3 EXCEPT !.t = SetAll(t4, WithTag(t4, table, "td"), "role", <<"cell">>)]

RECURSIVE TableLoop(_, _)
TableLoop(s, tables) ==
    IF tables = <<>> THEN s ELSE TableLoop(TableStep(s, Head(tables)), Tail(tables))

enhanceTables(s) == TableLoop(s, ByTag(s.t, {"table"}))

\* lines 312-326
FormStep(s, form) ==
    LET t == s.t
        formHeading == FirstOf(SelectSeq(Descendants(t, form), LAMBDA n : t[n].tag \in HeadingTags))
    IN IF HasAttr(t, form, "aria-label") \/ HasAttr(t, form, "aria-labelledby") THEN s
       ELSE IF formHeading # 0 THEN
           LET s1 == IF ElId(t, formHeading) = <<>>
                     THEN [t |-> SetAttr(t, formHeading, "id",
                                         RandomId(<<"form", "-", "heading">>, s.r)),
                           r |-> Tail(s.r)]
                     ELSE s
           IN [s1 EXCEPT !.t = SetAttr(@, form, "aria-labelledby", ElId(s1.t, formHeading))]
       ELSE [s EXCEPT !.t = SetAttr(@, form, "aria-label", <<"Form">>)]

RECURSIVE FormLoop(_, _)
FormLoop(s, forms) == IF forms = <<>> THEN s ELSE FormLoop(FormStep(s, Head(forms)), Tail(forms))

\* input.type: the type attribute of an input (text when absent), the fixed
\* type of a select or textarea
InputType(t, n) ==
    IF t[n].tag = "input"
    THEN (IF GetAttr(t, n, "type") # <<>> THEN GetAttr(t, n, "type") ELSE <<"text">>)
    ELSE IF t[n].tag = "select" THEN <<"select", "-", "one">>
    ELSE <<"textarea">>

\* lines 330-374
InputStep(s, input) ==
    LET t == s.t
        inputId == ElId(t, input)
    IN IF InputType(t, input) \in {<<"hidden">>, <<"submit">>, <<"button">>} THEN s
       ELSE
       LET s1 == IF inputId = <<>>
                 THEN [t |-> SetAttr(t, input, "id", RandomId(<<"input">>, s.r)),
                       r |-> Tail(s.r)]
                 ELSE s
           t1 == s1.t
           byFor == /\ inputId # <<>>
                    /\ \E i \in 1..Len(Order(t1)) :
                          LET l == Order(t1)[i] IN
                          /\ t1[l].tag = "label"
                          /\ HasAttr(t1, l, "for")
                          /\ GetAttr(t1, l, "for") = inputId
           hasAssociatedLabel ==
               \/ byFor
               \/ Closest(t1, input, "label") # 0
               \/ HasAttr(t1, input, "aria-label")
               \/ HasAttr(t1, input, "aria-labelledby")
           t2 == IF ~hasAssociatedLabel
                 THEN SetAttr(AddClass(t1, input, "a11y-warning"), input, "data-a11y-warning",
                              <<"Input", SP, "has", SP, "no", SP, "accessible", SP, "label">>)
                 ELSE t1
       IN [s1 EXCEPT !.t = IF HasAttr(t2, input, "required")
                           THEN SetAttr(t2, input, "aria-required", <<"true">>)
                           ELSE t2]

RECURSIVE InputLoop(_, _)
InputLoop(s, inputs) ==
    IF inputs = <<>> THEN s ELSE InputLoop(InputStep(s, Head(inputs)), Tail(inputs))

enhanceForms(s) ==
    LET s1 == FormLoop(s, ByTag(s.t, {"form"}))
    IN InputLoop(s1, ByTag(s1.t, {"input", "select", "textarea"}))

\* lines 395-403: the first language-* class, 'code' when there is none
CodeLanguage(t, codeBlock) ==
    LET langs == SelectSeq(ClassList(t, codeBlock),
                           LAMBDA c : StartsWith(c, <<"language", "-">>))
    IN IF langs = <<>> THEN <<"code">> ELSE SubSeq(Head(langs), 3, Len(Head(langs)))

\* the code block step with a role of its own making
CodeStepOwnRole(t, codeBlock) ==
    LET pre == Closest(t, codeBlock, "pre") IN
    IF pre = 0 THEN t
    ELSE SetAttr(SetAttr(SetAttr(t, pre, "tabindex", <<"0">>), pre, "role", <<"code">>),
                 pre, "aria-label",
                 <<"Code", SP, "example", SP, "in", SP>> \o CodeLanguage(t, codeBlock))

CodeStep(t, codeBlock) ==
    LET pre == Closest(t, codeBlock, "pre") IN
    IF pre = 0 THEN t
    ELSE SetAttr(SetAttr(SetAttr(t, pre, "tabindex", <<"0">>), pre, "role", <<"region">>),
                 pre, "aria-label",
                 <<"Code", SP, "example", SP, "in", SP>> \o CodeLanguage(t, codeBlock))

RECURSIVE CodeLoop(_, _)
CodeLoop(t, cs) == IF cs = <<>> THEN t ELSE CodeLoop(CodeStep(t, Head(cs)), Tail(cs))

\* querySelectorAll('pre code')
enhanceCodeBlocks(t) ==
    CodeLoop(t, SelectSeq(Order(t), LAMBDA n : /\ t[n].tag = "code"
                                              /\ Closest(t, ParentOf(t, n), "pre") # 0))

\* only the enhancer's own target counts as an existing skip link
SkipTargetsOwn == { <<"#">> \o MainContentId }

SkipTargets == { <<"#", "main">>, <<"#">> \o MainContentId, <<"#", "content">> }

SkipLinkText == <<"Skip", SP, "to", SP, "main", SP, "content">>

\* the href the injected skip link gets (line 421)
SkipLinkHref(t) == <<"#">> \o MainContentId

\* addSkipNavigation with the skip link placed after the body's content
addSkipNavigationLast(t) ==
    LET body == FirstOf(ByTag(t, {"body"}))
        existingSkipLink ==
            FirstOf(SelectSeq(Order(t), LAMBDA n : /\ t[n].tag = "a"
                                                   /\ HasAttr(t, n, "href")
                                                   /\ GetAttr(t, n, "href") \in SkipTargets))
    IN IF body # 0 /\ existingSkipLink = 0 THEN
           LET skipLink == Len(t) + 1
               t1 == CreateElement(t, "a")
               t2 == SetAttr(t1, skipLink, "href", SkipLinkHref(t))
               t3 == SetAttr(t2, skipLink, "class", <<"skip", "-", "link">>)
               t4 == [t3 EXCEPT ![skipLink].text = SkipLinkText]
           IN AppendChild(t4, body, skipLink)
       ELSE t

addSkipNavigation(t) ==
    LET body == FirstOf(ByTag(t, {"body"}))
        existingSkipLink ==
            FirstOf(SelectSeq(Order(t), LAMBDA n : /\ t[n].tag = "a"
                                                   /\ HasAttr(t, n, "href")
                                                   /\ GetAttr(t, n, "href") \in SkipTargets))
    IN IF body # 0 /\ existingSkipLink = 0 THEN
           LET skipLink == Len(t) + 1
               t1 == CreateElement(t, "a")
               t2 == SetAttr(t1, skipLink, "href", SkipLinkHref(t))
               t3 == SetAttr(t2, skipLink, "class", <<"skip", "-", "link">>)
               t4 == [t3 EXCEPT ![skipLink].text = SkipLinkText]
           IN InsertFirst(t4, body, skipLink)
       ELSE t

\* enhanceWithAria(parsedHtml, frontmatter); r holds the values Math.random
\* yields during the run
\* the one element of a singleton; the element is computed before what is
\* built from it
One(S) == CHOOSE x \in S : TRUE

\* the k-th pass of enhanceWithAria on the tree s.t, with the draws s.r left
Pass(k, s, frontmatter) ==
    CASE k = 1 -> [s EXCEPT !.t = IF frontmatter.language # <<>>
                                  THEN ensureHtmlLangAttribute(s.t, frontmatter.language)
                                  ELSE s.t]
      [] k = 2 -> [s EXCEPT !.t = ensureDocumentTitle(s.t, frontmatter.title)]
      [] k = 3 -> [s EXCEPT !.t = addDocumentLandmarks(s.t)]
      [] k = 4 -> [s EXCEPT !.t = enhanceHeadings(s.t)]
      [] k = 5 -> [s EXCEPT !.t = enhanceLinks(s.t)]
      [] k = 6 -> enhanceTables(s)
      [] k = 7 -> enhanceForms(s)
      [] k = 8 -> [s EXCEPT !.t = enhanceCodeBlocks(s.t)]
      [] OTHER -> [s EXCEPT !.t = addSkipNavigation(s.t)]

RECURSIVE Passes(_, _, _)
Passes(k, s, frontmatter) ==
    IF k > 9 THEN s
    ELSE One({Passes(k + 1, s1, frontmatter) : s1 \in {Pass(k, s, frontmatter)}})

EnhanceRun(t, frontmatter, r) == Passes(1, [t |-> t, r |-> r], frontmatter)

enhanceWithAria(t, frontmatter, r) == EnhanceRun(t, frontmatter, r).t

----------------------------------------------------------------------------
(* The checker, src/accessibility/checker.js *)

\* an issue: its type, its message, the element it is about (0 for none) and
\* the rule or subtype some checks add
IssueOf(type, msg, el, sub) == [type |-> type, msg |-> msg, el |-> el, sub |-> sub]

Issue(type, msg, el) == IssueOf(type, msg, el, "")

\* what a check hands back: its issues, or the exception it throws
Returned(issues) == [thrown |-> FALSE, issues |-> issues, error |-> <<>>]
Thrown(error) == [thrown |-> TRUE, issues |-> <<>>, error |-> error]

\* axe.run is the external WCAG engine: it rejects, or resolves with violations
AxeOutcomes == {"rejects", "none", "one"}

runAxeChecks(document, axe) ==
    IF axe = "rejects" THEN
        << IssueOf("wcag", <<"Error running axe checks: ", "axe failed">>, 0, "axe-error") >>
    ELSE IF axe = "one" THEN
        << IssueOf("wcag", <<"Images must have alternate text">>, 0, "image-alt") >>
    ELSE <<>>

HeadingSkipMsg(previousLevel, currentLevel) ==
    <<"Heading level skipped from h", ToString(previousLevel), " to h", ToString(currentLevel)>>

HeadingStartMsg(tag) == <<"Document doesn't start with an h1. First heading is ", tag>>

\* lines 148-170: the loop over the headings, previousLevel carried along
RECURSIVE HeadingScan(_, _, _)
HeadingScan(document, headings, previousLevel) ==
    IF headings = <<>> THEN <<>>
    ELSE LET heading == Head(headings)
             currentLevel == LevelOf(document[heading].tag)
         IN (IF previousLevel = 0 /\ currentLevel # 1
             THEN <<Issue("heading", HeadingStartMsg(document[heading].tag), heading)>>
             ELSE <<>>)
            \o (IF currentLevel > previousLevel + 1
                THEN <<Issue("heading", HeadingSkipMsg(previousLevel, currentLevel), heading)>>
                ELSE <<>>)
            \o HeadingScan(document, Tail(headings), currentLevel)

NoHeadingsMsg == <<"Document has no headings, which may make navigation difficult for screen reader users">>

NoH1Msg == <<"Document lacks a main heading (h1), which is important for document structure">>

checkHeadingHierarchy(document) ==
    LET headings == ByTag(document, HeadingTags) IN
    IF headings = <<>> THEN <<Issue("heading", NoHeadingsMsg, 0)>>
    ELSE (IF ByTag(document, {"h1"}) = <<>> THEN <<Issue("heading", NoH1Msg, 0)>> ELSE <<>>)
         \o HeadingScan(document, headings, 0)

\* parseInt of the tokens the inputs use; NaN for anything else
IntToks == {"-1", "0", "1", "2", "14px", "16px", "18px", "24px", "400", "700",
            "118", "119", "150", "255"}

IsNaN(w) == w \notin IntToks

ParseInt(w) ==
    CASE w = "-1" -> -1 [] w = "0" -> 0 [] w = "1" -> 1 [] w = "2" -> 2
      [] w = "14px" -> 14 [] w = "16px" -> 16 [] w = "18px" -> 18 [] w = "24px" -> 24
      [] w = "400" -> 400 [] w = "700" -> 700
      [] w = "118" -> 118 [] w = "119" -> 119 [] w = "150" -> 150 [] w = "255" -> 255
      [] OTHER -> 0

IsDigits(w) == w \in {"0", "1", "2", "118", "119", "150", "255", "400", "700"}

RECURSIVE SkipSpaces(_, _)
SkipSpaces(s, i) == IF i <= Len(s) /\ s[i] = SP THEN SkipSpaces(s, i + 1) ELSE i

\* color.match(/(\d+),\s*(\d+),\s*(\d+)/) at position i: the three numbers' places
TripleAt(s, i) ==
    LET j == SkipSpaces(s, i + 2)
        k == SkipSpaces(s, j + 2)
    IN IF /\ k <= Len(s)
          /\ IsDigits(s[i]) /\ s[i + 1] = ","
          /\ IsDigits(s[j]) /\ s[j + 1] = ","
          /\ IsDigits(s[k])
       THEN <<ParseInt(s[i]), ParseInt(s[j]), ParseInt(s[k])>>
       ELSE <<>>

\* two hex digits each (a three-digit value doubled), as parseInt(.., 16) reads them
HexTriple(w) ==
    CASE w \in {"000", "000000"} -> <<0, 0, 0>>
      [] w \in {"fff", "ffffff"} -> <<255, 255, 255>>
      [] w \in {"777", "777777"} -> <<119, 119, 119>>
      [] w = "767676" -> <<118, 118, 118>>
      [] w = "969696" -> <<150, 150, 150>>
      [] OTHER -> <<>>

\* parseColor: the RGB triple, <<>> for null
parseColor(color) ==
    IF color = <<>> THEN <<>>
    ELSE IF Head(color) \in {"rgb", "rgba"} THEN
        LET hits == {i \in 1..Len(color) : TripleAt(color, i) # <<>>}
        IN IF hits = {} THEN <<>>
           ELSE TripleAt(color, CHOOSE i \in hits : \A j \in hits : i <= j)
    ELSE IF Head(color) = "#" THEN
        (IF Len(color) > 1 THEN HexTriple(color[2]) ELSE <<>>)
    ELSE <<>>

\* relative luminance of a grey level, times 10^6 (the sRGB transfer curve
\* wcag-contrast applies); the inputs use greys only
Luminance(rgb) ==
    CASE rgb[1] = 0 -> 0
      [] rgb[1] = 118 -> 181164
      [] rgb[1] = 119 -> 184475
      [] rgb[1] = 150 -> 304987
      [] OTHER -> 1000000

\* wcagContrast.rgb: (L1 + 0.05) / (L2 + 0.05), lighter over darker, times 1000
ContrastRatio(a, b) ==
    LET la == Luminance(a)
        lb == Luminance(b)
        hi == IF la >= lb THEN la ELSE lb
        lo == IF la >= lb THEN lb ELSE la
    IN ((hi + 50000) * 1000) \div (lo + 50000)

Rgb(r, g, b) == <<"rgb", "(", r, ",", SP, g, ",", SP, b, ")">>

\* getComputedStyle(element) as the window resolves it
Styles ==
    { [color |-> <<>>, backgroundColor |-> <<>>,
       fontSize |-> "16px", fontWeight |-> "400"],
      [color |-> Rgb("0", "0", "0"), backgroundColor |-> Rgb("255", "255", "255"),
       fontSize |-> "16px", fontWeight |-> "400"],
      [color |-> Rgb("150", "150", "150"), backgroundColor |-> Rgb("255", "255", "255"),
       fontSize |-> "16px", fontWeight |-> "400"],
      [color |-> Rgb("150", "150", "150"), backgroundColor |-> Rgb("255", "255", "255"),
       fontSize |-> "18px", fontWeight |-> "400"],
      [color |-> <<"#", "777">>, backgroundColor |-> <<"#", "ffffff">>,
       fontSize |-> "16px", fontWeight |-> "700"],
      [color |-> <<"#", "777">>, backgroundColor |-> <<"#", "ffffff">>,
       fontSize |-> "18px", fontWeight |-> "400"],
      [color |-> <<"#", "777">>, backgroundColor |-> <<"#", "ffffff">>,
       fontSize |-> "14px", fontWeight |-> "700"],
      [color |-> <<"#", "777">>, backgroundColor |-> <<"#", "ffffff">>,
       fontSize |-> "14px", fontWeight |-> "400"] }

\* lines 204-208, times 1000
MinimumRatio(style) ==
    LET fontSize == ParseInt(style.fontSize)
        isBold == ~IsNaN(style.fontWeight) /\ ParseInt(style.fontWeight) >= 700
        isLargeText == ~IsNaN(style.fontSize) /\ (fontSize >= 18 \/ (fontSize >= 14 /\ isBold))
    IN IF isLargeText THEN 3000 ELSE 4500

\* ratio.toFixed(2) of a ratio kept times 1000
ToFixed2(ratio) ==
    LET hundredths == (ratio + 5) \div 10 IN
    CASE hundredths = 100 -> "1.00"
      [] hundredths = 296 -> "2.96"
      [] hundredths = 448 -> "4.48"
      [] hundredths = 454 -> "4.54"
      [] hundredths = 2100 -> "21.00"
      [] OTHER -> "0.00"

ContrastStep(style, element) ==
    LET foreground == parseColor(style.color)
        background == parseColor(style.backgroundColor)
    IN IF style.color = <<>> \/ style.backgroundColor = <<>> THEN <<>>
       ELSE IF foreground = <<>> \/ background = <<>> THEN <<>>
       ELSE IF ContrastRatio(foreground, background) < MinimumRatio(style)
       THEN <<Issue("contrast",
                    <<"Insufficient color contrast ratio (",
                      ToFixed2(ContrastRatio(foreground, background)),
                      ":1), should be at least ",
                      IF MinimumRatio(style) = 3000 THEN "3" ELSE "4.5", ":1">>,
                    element)>>
       ELSE <<>>

RECURSIVE ContrastLoop(_, _)
ContrastLoop(style, els) ==
    IF els = <<>> THEN <<>>
    ELSE ContrastStep(style, Head(els)) \o ContrastLoop(style, Tail(els))

TextTags == {"p", "h1", "h2", "h3", "h4", "h5", "h6", "li", "td", "th", "label"}

\* getComputedStyle is read from the global scope (line 185), which Node does not
\* define: the first element reached throws a ReferenceError unless the host
\* supplies one
checkColorContrast(document, host) ==
    LET textElements == ByTag(document, TextTags) IN
    IF textElements # <<>> /\ ~host.gcs
    THEN Thrown(<<"getComputedStyle is not defined">>)
    ELSE Returned(ContrastLoop(host.style, textElements))

\* htmlValidator is the external validator: it rejects, or resolves with messages
ValidatorOutcomes == {"rejects", "clean", "messages"}

ValidatorMessages(validator) ==
    IF validator = "messages"
    THEN << [type |-> "error", message |-> <<"Stray end tag">>],
            [type |-> "info", message |-> <<"Trailing slash">>],
            [type |-> "warning", message |-> <<"Consider adding a lang attribute">>] >>
    ELSE <<>>

\* validateHTML that hands the validator's message type on as the issue type
validateHTMLRawType(html, validator) ==
    IF validator = "rejects" THEN
        << IssueOf("html", <<"HTML validation failed: ", "validator failed">>, 0, "") >>
    ELSE LET kept == SelectSeq(ValidatorMessages(validator),
                               LAMBDA m : m.type \in {"error", "warning"})
         IN [i \in 1..Len(kept) |->
                IssueOf(kept[i].type, kept[i].message, 0, kept[i].type)]

validateHTML(html, validator) ==
    IF validator = "rejects" THEN
        << IssueOf("html", <<"HTML validation failed: ", "validator failed">>, 0, "") >>
    ELSE LET kept == SelectSeq(ValidatorMessages(validator),
                               LAMBDA m : m.type \in {"error", "warning"})
         IN [i \in 1..Len(kept) |->
                IssueOf("html", kept[i].message, 0, kept[i].type)]

validRoles ==
    { <<"alert">>, <<"alertdialog">>, <<"application">>, <<"article">>, <<"banner">>,
      <<"button">>, <<"cell">>, <<"checkbox">>, <<"columnheader">>, <<"combobox">>,
      <<"complementary">>, <<"contentinfo">>, <<"definition">>, <<"dialog">>,
      <<"directory">>, <<"document">>, <<"feed">>, <<"figure">>, <<"form">>, <<"grid">>,
      <<"gridcell">>, <<"group">>, <<"heading">>, <<"img">>, <<"link">>, <<"list">>,
      <<"listbox">>, <<"listitem">>, <<"log">>, <<"main">>, <<"marquee">>, <<"math">>,
      <<"menu">>, <<"menubar">>, <<"menuitem">>, <<"menuitemcheckbox">>,
      <<"menuitemradio">>, <<"navigation">>, <<"none">>, <<"note">>, <<"option">>,
      <<"presentation">>, <<"progressbar">>, <<"radio">>, <<"radiogroup">>,
      <<"region">>, <<"row">>, <<"rowgroup">>, <<"rowheader">>, <<"scrollbar">>,
      <<"search">>, <<"searchbox">>, <<"separator">>, <<"slider">>, <<"spinbutton">>,
      <<"status">>, <<"switch">>, <<"tab">>, <<"table">>, <<"tablist">>, <<"tabpanel">>,
      <<"term">>, <<"textbox">>, <<"timer">>, <<"toolbar">>, <<"tooltip">>, <<"tree">>,
      <<"treegrid">>, <<"treeitem">> }

\* property names every object literal inherits from Object.prototype: a lookup
\* by such a name is truthy before anything is stored (a function, or the
\* prototype object itself)
ObjectPrototypeKeys ==
    { <<"constructor">>, <<"toString">>, <<"valueOf">>, <<"hasOwnProperty">>,
      <<"isPrototypeOf">>, <<"toLocaleString">>, <<"propertyIsEnumerable">>,
      <<"__proto__">> }

ValueRange == <<"aria-valuemin", "aria-valuemax", "aria-valuenow">>

\* rolesThatRequireAttributes[role], <<>> for undefined
requiredAttributes(role) ==
    CASE role = <<"checkbox">> -> <<"aria-checked">>
      [] role = <<"combobox">> -> <<"aria-expanded">>
      [] role \in {<<"slider">>, <<"progressbar">>, <<"scrollbar">>} -> ValueRange
      [] role = <<"listbox">> -> <<"aria-multiselectable">>
      [] role = <<"radiogroup">> -> <<"aria-required">>
      [] OTHER -> <<>>

InvalidRoleMsg(role) == <<"Invalid ARIA role: \"">> \o role \o <<"\"">>

MissingAttrMsg(role, attr) ==
    <<"Element with role=\"">> \o role \o <<"\" is missing required attribute: ", attr>>

RECURSIVE RoleLoop(_, _)
RoleLoop(document, els) ==
    IF els = <<>> THEN <<>>
    ELSE LET role == GetAttr(document, Head(els), "role") IN
         (IF role \notin validRoles
          THEN <<Issue("aria", InvalidRoleMsg(role), Head(els))>> ELSE <<>>)
         \o RoleLoop(document, Tail(els))

RECURSIVE RequiredLoop(_, _)
RequiredLoop(document, els) ==
    IF els = <<>> THEN <<>>
    ELSE LET element == Head(els)
             role == GetAttr(document, element, "role")
             missing == SelectSeq(requiredAttributes(role),
                                  LAMBDA attr : ~HasAttr(document, element, attr))
         IN [i \in 1..Len(missing) |-> Issue("aria", MissingAttrMsg(role, missing[i]), element)]
            \o RequiredLoop(document, Tail(els))

\* lines 326, 347-362: rolesThatRequireAttributes is an object literal, so the
\* lookup of line 349 by an inherited name hands back a truthy value that the
\* for...of of line 352 cannot iterate: a TypeError leaves the check
checkARIAUsage(document) ==
    LET elementsWithRole == SelectSeq(Order(document), LAMBDA n : HasAttr(document, n, "role"))
    IN IF \E k \in 1..Len(elementsWithRole) :
              GetAttr(document, elementsWithRole[k], "role") \in ObjectPrototypeKeys
       THEN Thrown(<<"requiredAttributes is not iterable">>)
       ELSE Returned(RoleLoop(document, elementsWithRole)
                     \o RequiredLoop(document, elementsWithRole))

TabindexOffMsg == <<"Interactive element is not keyboard accessible (tabindex=\"-1\")">>

TabindexPositiveMsg(tabindex) ==
    <<"Tabindex greater than 0 (">> \o tabindex \o <<") can cause navigation issues">>

RoleButtonMsg == <<"Element with role=\"button\" needs tabindex attribute for keyboard access">>

RECURSIVE TabindexLoop(_, _)
TabindexLoop(document, els) ==
    IF els = <<>> THEN <<>>
    ELSE LET element == Head(els)
             tabindex == GetAttr(document, element, "tabindex")
         IN (IF tabindex = <<"-1">>
             THEN <<Issue("keyboard", TabindexOffMsg, element)>> ELSE <<>>)
            \o (IF tabindex # <<>> /\ ~IsNaN(Head(tabindex)) /\ ParseInt(Head(tabindex)) > 0
                THEN <<Issue("keyboard", TabindexPositiveMsg(tabindex), element)>> ELSE <<>>)
            \o TabindexLoop(document, Tail(els))

checkKeyboardAccessibility(document) ==
    LET interactiveElements ==
            SelectSeq(Order(document),
                      LAMBDA n : \/ document[n].tag \in {"a", "button", "input", "select", "textarea"}
                                 \/ (HasAttr(document, n, "role") /\
                                     GetAttr(document, n, "role") \in {<<"button">>, <<"link">>}))
        divWithRoleButton ==
            SelectSeq(Order(document),
                      LAMBDA n : /\ document[n].tag = "div"
                                 /\ HasAttr(document, n, "role")
                                 /\ GetAttr(document, n, "role") = <<"button">>
                                 /\ ~HasAttr(document, n, "tabindex"))
    IN TabindexLoop(document, interactiveElements)
       \o [i \in 1..Len(divWithRoleButton) |-> Issue("keyboard", RoleButtonMsg, divWithRoleButton[i])]

MissingAltMsg == <<"Image missing alt attribute">>

EmptyAltMsg == <<"Non-decorative image has empty alt text">>

AltPhraseMsg == <<"Alt text should not include phrases like \"image of\" or \"picture of\"">>

AriaHiddenMsg == <<"Interactive element is hidden from screen readers (aria-hidden=\"true\")">>

DuplicateIdMsg(id) ==
    <<"Duplicate ID: \"">> \o id \o <<"\" - can cause issues with aria references">>

DanglingMsg(id) == <<"aria-labelledby references non-existent ID: \"">> \o id \o <<"\"">>

\* boolean === string: operands of different types are never strictly equal
StrictEqualsBoolStr(b, str) == FALSE

\* line 437: !img.getAttribute('aria-hidden') === 'true'
NotAriaHidden(document, img) ==
    StrictEqualsBoolStr(GetAttr(document, img, "aria-hidden") = <<>>, <<"true">>)

\* lines 427-451, one image
ImageStep(document, img) ==
    LET alt == GetAttr(document, img, "alt") IN
    IF ~HasAttr(document, img, "alt") THEN <<Issue("screen-reader", MissingAltMsg, img)>>
    ELSE IF IsBlank(alt) THEN
        (IF /\ ~HasClass(document, img, "decorative")
            /\ Closest(document, img, "figure") = 0
            /\ NotAriaHidden(document, img)
         THEN <<Issue("screen-reader", EmptyAltMsg, img)>>
         ELSE <<>>)
    ELSE IF \/ IncludesSeq(ToLower(alt), <<"image", SP, "of">>)
            \/ IncludesSeq(ToLower(alt), <<"picture", SP, "of">>)
    THEN <<Issue("screen-reader", AltPhraseMsg, img)>>
    ELSE <<>>

RECURSIVE ImageLoop(_, _)
ImageLoop(document, imgs) ==
    IF imgs = <<>> THEN <<>>
    ELSE ImageStep(document, Head(imgs)) \o ImageLoop(document, Tail(imgs))

\* allIds[id] on the object literal allIds = {} with the own keys in seen
AllIdsLookup(seen, id) == id \in seen \/ id \in ObjectPrototypeKeys

\* lines 465-480
RECURSIVE DuplicateLoop(_, _, _)
DuplicateLoop(document, els, seen) ==
    IF els = <<>> THEN <<>>
    ELSE LET element == Head(els)
             id == GetAttr(document, element, "id")
         IN IF AllIdsLookup(seen, id)
            THEN <<Issue("screen-reader", DuplicateIdMsg(id), element)>>
                 \o DuplicateLoop(document, Tail(els), seen)
            ELSE DuplicateLoop(document, Tail(els), seen \cup {id})

\* lines 485-497, one element
LabelledbyStep(document, element) ==
    LET labelIds == Split(GetAttr(document, element, "aria-labelledby"))
        missing == SelectSeq(labelIds, LAMBDA id : GetElementById(document, id) = 0)
    IN [i \in 1..Len(missing) |-> Issue("screen-reader", DanglingMsg(missing[i]), element)]

RECURSIVE LabelledbyLoop(_, _)
LabelledbyLoop(document, els) ==
    IF els = <<>> THEN <<>>
    ELSE LabelledbyStep(document, Head(els)) \o LabelledbyLoop(document, Tail(els))

checkScreenReaderAnnouncements(document) ==
    LET images == ByTag(document, {"img"})
        interactiveWithAriaHidden ==
            SelectSeq(Order(document),
                      LAMBDA n : /\ document[n].tag \in {"a", "button", "input"}
                                 /\ HasAttr(document, n, "aria-hidden")
                                 /\ GetAttr(document, n, "aria-hidden") = <<"true">>)
        elementsWithId == SelectSeq(Order(document), LAMBDA n : HasAttr(document, n, "id"))
        elementsWithLabelledby ==
            SelectSeq(Order(document), LAMBDA n : HasAttr(document, n, "aria-labelledby"))
    IN ImageLoop(document, images)
       \o [i \in 1..Len(interactiveWithAriaHidden) |->
              Issue("screen-reader", AriaHiddenMsg, interactiveWithAriaHidden[i])]
       \o DuplicateLoop(document, elementsWithId, {})
       \o LabelledbyLoop(document, elementsWithLabelledby)

ErrorIssue(error) == <<Issue("error", <<"Accessibility check failed: ">> \o error, 0)>>

\* the issues pushed before the colour contrast check
BeforeContrast(document, config, host) ==
    (IF config.checkWCAG THEN runAxeChecks(document, host.axe) ELSE <<>>)
    \o (IF config.checkHeadingHierarchy THEN checkHeadingHierarchy(document) ELSE <<>>)

\* the checks after contrast with the screen-reader check run ahead of the ARIA check
AfterContrastReordered(document, html, config, host) ==
    (IF config.validateHTML THEN validateHTML(html, host.validator) ELSE <<>>)
    \o (IF config.checkScreenReaderAnnouncements
        THEN checkScreenReaderAnnouncements(document) ELSE <<>>)
    \o (IF config.checkARIA THEN checkARIAUsage(document).issues ELSE <<>>)
    \o (IF config.checkKeyboardAccessibility THEN checkKeyboardAccessibility(document) ELSE <<>>)

\* the issues pushed after it
AfterContrast(document, html, config, host) ==
    (IF config.validateHTML THEN validateHTML(html, host.validator) ELSE <<>>)
    \o (IF config.checkARIA THEN checkARIAUsage(document).issues ELSE <<>>)
    \o (IF config.checkKeyboardAccessibility THEN checkKeyboardAccessibility(document) ELSE <<>>)
    \o (IF config.checkScreenReaderAnnouncements
        THEN checkScreenReaderAnnouncements(document) ELSE <<>>)

\* checkAccessibility(html): the seven checks inside one try block; an exception
\* that leaves a check reaches the catch at line 64, which returns the error
\* issue alone
TryChecks(before, contrast, aria, after) ==
    IF contrast.thrown THEN ErrorIssue(contrast.error)
    ELSE IF aria.thrown THEN ErrorIssue(aria.error)
    ELSE before \o contrast.issues \o after

\* lines 16-63 on the document JSDOM built
RunChecks(document, html, config, host) ==
    TryChecks(BeforeContrast(document, config, host),
              IF config.checkColorContrast
              THEN checkColorContrast(document, host) ELSE Returned(<<>>),
              IF config.checkARIA THEN checkARIAUsage(document) ELSE Returned(<<>>),
              AfterContrast(document, html, config, host))

checkAccessibility(html, config, host) == RunChecks(ParseDocument(html), html, config, host)

----------------------------------------------------------------------------
(* generator.js: rendering, templating and processFile *)

\* config.js lines 22-32: the accessibility settings
defaultConfig ==
    [ indicateExternalLinks |-> TRUE, checkAccessibility |-> TRUE, checkWCAG |-> TRUE,
      checkHeadingHierarchy |-> TRUE, checkColorContrast |-> TRUE, validateHTML |-> TRUE,
      checkARIA |-> TRUE, checkKeyboardAccessibility |-> TRUE,
      checkScreenReaderAnnouncements |-> TRUE ]

\* a piece of a source document: raw HTML, or a markdown link the renderer's
\* link_open rule sees
Raw(toks) == [kind |-> "raw", toks |-> toks]
MdLink(href, text) == [kind |-> "link", toks |-> <<Open("a", "href" :> href), Text(text), Close("a")>>]

\* the link_open rule, lines 75-95
RenderLinkOpen(toks, config) ==
    LET href == toks[1].attrs["href"]
        rel == IF IsExternalHref(href)
               THEN ("rel" :> <<"noopener", SP, "noreferrer">>) ELSE NoAttrs
        label == IF IsExternalHref(href) /\ config.indicateExternalLinks
                 THEN ("aria-label" :> (<<"External", SP, "link", ":", SP>> \o toks[2].text))
                 ELSE NoAttrs
    IN <<Open("a", label @@ rel @@ toks[1].attrs)>> \o Tail(toks)

RECURSIVE RenderItems(_, _)
RenderItems(items, config) ==
    IF items = <<>> THEN <<>>
    ELSE (IF Head(items).kind = "link" THEN RenderLinkOpen(Head(items).toks, config)
          ELSE Head(items).toks)
         \o RenderItems(Tail(items), config)

\* applyTemplate: the page shell with its holes filled
applyTemplate(content, frontmatter, config) ==
    [ title |-> IF frontmatter.title # <<>> THEN frontmatter.title ELSE <<"Documentation">>,
      language |-> IF frontmatter.language # <<>> THEN frontmatter.language ELSE <<"en">>,
      content |-> content ]

NoPage == [title |-> <<>>, language |-> <<>>, content |-> <<>>]

Hosts ==
    { [axe |-> "none", validator |-> "clean", gcs |-> TRUE,
       style |-> [color |-> <<>>, backgroundColor |-> <<>>,
                  fontSize |-> "16px", fontWeight |-> "400"]],
      [axe |-> "one", validator |-> "messages", gcs |-> TRUE,
       style |-> [color |-> Rgb("150", "150", "150"), backgroundColor |-> Rgb("255", "255", "255"),
                  fontSize |-> "16px", fontWeight |-> "400"]],
      [axe |-> "rejects", validator |-> "rejects", gcs |-> TRUE,
       style |-> [color |-> Rgb("0", "0", "0"), backgroundColor |-> Rgb("255", "255", "255"),
                  fontSize |-> "16px", fontWeight |-> "400"]],
      [axe |-> "one", validator |-> "messages", gcs |-> FALSE,
       style |-> [color |-> <<>>, backgroundColor |-> <<>>,
                  fontSize |-> "16px", fontWeight |-> "400"]] }

IdleHost == CHOOSE h \in Hosts : h.axe = "none"

\* the hosts checkAccessibility is called under: the ones above, and quiet
\* engines with each computed style, with and without a global getComputedStyle
AuditHosts ==
    Hosts
    \cup { [axe |-> "none", validator |-> "clean", gcs |-> TRUE, style |-> st] : st \in Styles }
    \cup { [axe |-> "none", validator |-> "clean", gcs |-> FALSE,
            style |-> [color |-> Rgb("150", "150", "150"),
                       backgroundColor |-> Rgb("255", "255", "255"),
                       fontSize |-> "16px", fontWeight |-> "400"]] }

\* lines 198-223: check (issues are only logged), apply the template, write
CheckAndWrite(parsedHtml, html, frontmatter, config, h) ==
    [written |-> applyTemplate(html, frontmatter, config),
     success |-> TRUE,
     issues |-> IF config.checkAccessibility THEN checkAccessibility(html, config, h)
                ELSE <<>>,
     page |-> parsedHtml]

\* lines 186-223 on a file that was read
ProcessParsed(parsedHtml, frontmatter, config, h) ==
    CheckAndWrite(parsedHtml, Serialize(parsedHtml), frontmatter, config, h)

\* lines 224-227: the catch
ProcessFailed == [written |-> NoPage, success |-> FALSE, issues |-> <<>>, page |-> EmptyTree]

Refused(out) ==
    IF out.issues # <<>> THEN [out EXCEPT !.written = NoPage, !.success = FALSE] ELSE out

\* processFile that refuses to write a page the auditor found issues in
processFileGated(items, frontmatter, config, h, r, fileio) ==
    IF fileio # "ok" THEN ProcessFailed
    ELSE Refused(ProcessParsed(enhanceWithAria(ParseFragment(RenderItems(items, config)),
                                               frontmatter, r),
                               frontmatter, config, h))

\* processFile(filePath) on a file with the given frontmatter and markdown
processFile(items, frontmatter, config, h, r, fileio) ==
    IF fileio # "ok" THEN ProcessFailed
    ELSE One({ProcessParsed(page, frontmatter, config, h) :
                 page \in {enhanceWithAria(ParseFragment(RenderItems(items, config)),
                                           frontmatter, r)}})

----------------------------------------------------------------------------
(* Inputs *)

MaxKids == 2

MaxRuns == 2

ExampleHref == <<"https", ":", "/", "/", "example", ".", "org">>

\* the pieces the enhancer's input documents are put together from
EnhItems ==
    << Raw(<<Open("img", "src" :> <<"a", ".", "png">>)>>),
       Raw(<<Open("h2", NoAttrs), Text(<<"Setup">>), Close("h2")>>),
       Raw(<<Open("main", "id" :> <<"foo">>), Close("main")>>),
       Raw(<<Open("div", "class" :> <<"content">>), Close("div")>>),
       MdLink(ExampleHref, <<"Docs">>),
       Raw(<<Open("a", "href" :> ExampleHref), Text(<<"Docs">>), Close("a")>>),
       Raw(<<Open("a", "href" :> <<"#", "setup">>), Text(<<"Setup">>), Close("a")>>),
       Raw(<<Open("a", "href" :> <<"#", "main">>), Text(<<"Skip">>), Close("a")>>) >>

\* the pieces the checker's input documents are put together from
AuditItems ==
    << Raw(<<Open("h1", NoAttrs), Text(<<"Intro">>), Close("h1")>>),
       Raw(<<Open("h2", NoAttrs), Text(<<"Setup">>), Close("h2")>>),
       Raw(<<Open("img", "src" :> <<"a", ".", "png">>)>>),
       Raw(<<Open("img", "alt" :> <<>>)>>),
       Raw(<<Open("img", ("alt" :> <<>>) @@ ("aria-hidden" :> <<"true">>))>>),
       Raw(<<Open("div", "id" :> <<"x">>), Close("div")>>),
       Raw(<<Open("div", "id" :> <<"constructor">>), Close("div")>>),
       Raw(<<Open("span", "aria-labelledby" :> <<"x", SP, "y">>), Close("span")>>),
       Raw(<<Open("span", "aria-labelledby" :> <<"x", SP>>), Close("span")>>),
       Raw(<<Open("div", "role" :> <<"checkbox">>), Close("div")>>),
       Raw(<<Open("a", ("href" :> <<"#", "x">>) @@ ("tabindex" :> <<"-1">>)), Text(<<"Docs">>), Close("a")>>) >>

\* the pieces of the documents the landmark and link passes are tried on
MarkupItems ==
    << Raw(<<Open("header", NoAttrs), Close("header")>>),
       Raw(<<Open("footer", NoAttrs), Close("footer")>>),
       Raw(<<Open("head", NoAttrs), Close("head")>>),
       Raw(<<Open("a", "href" :> ExampleHref),
             Open("img", "alt" :> <<"Logo">>), Close("a")>>),
       Raw(<<Open("a", "href" :> <<"/", "page">>), Close("a")>>),
       Raw(<<Open("a", "href" :> <<"/", "page">>),
             Open("img", "alt" :> <<"Logo">>), Close("a")>>) >>

\* the pieces of the documents the table pass is tried on
TableItems ==
    << Raw(<<Open("h2", NoAttrs), Text(<<"Setup">>), Close("h2")>>),
       Raw(<<Open("h2", NoAttrs), Text(<<"?">>), Close("h2")>>),
       Raw(<<Open("table", NoAttrs), Open("tr", NoAttrs), Open("th", NoAttrs), Close("th"),
             Open("td", NoAttrs), Close("td"), Close("tr"), Close("table")>>),
       Raw(<<Open("table", NoAttrs), Open("caption", NoAttrs), Text(<<"Data">>),
             Close("caption"), Close("table")>>),
       Raw(<<Open("table", "aria-label" :> <<"Data">>), Close("table")>>),
       Raw(<<Open("table", NoAttrs), Open("tr", NoAttrs), Open("td", NoAttrs),
             Open("table", NoAttrs), Open("caption", NoAttrs), Text(<<"Data">>),
             Close("caption"), Close("table"),
             Close("td"), Close("tr"), Close("table")>>) >>

\* the pieces of the documents every role-writing pass is tried on
RoleItems ==
    << Raw(<<Open("header", NoAttrs), Close("header")>>),
       Raw(<<Open("footer", "role" :> <<"foo">>), Close("footer")>>),
       Raw(<<Open("aside", NoAttrs), Close("aside")>>),
       Raw(<<Open("table", NoAttrs), Open("tr", NoAttrs), Open("td", NoAttrs), Close("td"),
             Close("tr"), Close("table")>>),
       Raw(<<Open("pre", NoAttrs), Open("code", NoAttrs), Text(<<"x">>), Close("code"),
             Close("pre")>>),
       Raw(<<Open("div", "role" :> <<"bar">>), Close("div")>>),
       Raw(<<Open("div", "class" :> <<"content">>), Close("div")>>) >>

\* the pieces of the documents the ARIA check is tried on
AriaItems ==
    << Raw(<<Open("div", "role" :> <<"checkbox">>), Close("div")>>),
       Raw(<<Open("div", ("role" :> <<"checkbox">>) @@ ("aria-checked" :> <<"true">>)),
             Close("div")>>),
       Raw(<<Open("div", ("role" :> <<"slider">>) @@ ("aria-valuenow" :> <<"1">>)),
             Close("div")>>),
       Raw(<<Open("div", "role" :> <<"region">>), Close("div")>>),
       Raw(<<Open("div", "role" :> <<"foo">>), Close("div")>>),
       Raw(<<Open("div", "role" :> <<"constructor">>), Close("div")>>),
       Raw(<<Open("h1", NoAttrs), Text(<<"Intro">>), Close("h1")>>) >>

Catalogue(family) ==
    CASE family = "enhancer" -> EnhItems
      [] family = "markup" -> MarkupItems
      [] family = "aria" -> AriaItems
      [] family = "roles" -> RoleItems
      [] family = "tables" -> TableItems
      [] OTHER -> AuditItems

\* a source document: pieces of one catalogue, inside <html><body> or bare
Sources(family, wraps) ==
    { [family |-> family, wrap |-> w, kids |-> ks] :
        w \in wraps,
        ks \in UNION { [1..n -> 1..Len(Catalogue(family))] : n \in 0..MaxKids } }

ItemsOf(src) ==
    LET body == [i \in 1..Len(src.kids) |-> Catalogue(src.family)[src.kids[i]]]
    IN IF src.wrap = "full"
       THEN <<Raw(<<Open("html", NoAttrs), Open("body", NoAttrs)>>)>>
            \o body \o <<Raw(<<Close("body"), Close("html")>>)>>
       ELSE body

Frontmatters ==
    { [title |-> <<>>, language |-> <<>>], [title |-> <<"T">>, language |-> <<"en">>] }

\* the configurations a build runs under: the defaults, and checking and the
\* external-link indication both switched off
BuildConfigs ==
    { defaultConfig,
      [defaultConfig EXCEPT !.checkAccessibility = FALSE, !.indicateExternalLinks = FALSE] }

CheckFlags == {"checkWCAG", "checkHeadingHierarchy", "checkColorContrast", "validateHTML",
               "checkARIA", "checkKeyboardAccessibility", "checkScreenReaderAnnouncements"}

\* the configurations the checker runs under: the defaults, and one check off
AuditConfigs == {defaultConfig} \cup {[defaultConfig EXCEPT ![f] = FALSE] : f \in CheckFlags}

\* the values Math.random().toString(36).substr(2, 9) yields, the empty string
\* among them
RandPool == {<<>>, <<"k3x">>}

MaxDraws == 4

\* how many random ids one run of the enhancer draws on this tree
DrawCount(t, frontmatter) ==
    LET r0 == [i \in 1..MaxDraws |-> <<"k3x">>]
    IN MaxDraws - Len(EnhanceRun(t, frontmatter, r0).r)

----------------------------------------------------------------------------
(* State *)

VARIABLES
    source,     \* the source document being processed
    fm,         \* its frontmatter
    config,     \* the configuration getConfig() returns
    doc,        \* parsedHtml, the tree the enhancer mutates
    runs,       \* how many times enhanceWithAria has run on doc
    once,       \* doc as the first run left it
    host,       \* what the external engines did in the last check
    rand,       \* the random draws of the last enhancer run
    fileio,     \* whether the file operations of the last build succeeded
    issues,     \* the list the last checkAccessibility returned
    written,    \* the page the last build wrote
    success,    \* the success flag the last build returned
    pc,         \* "parsed", "enhanced", "audited" or "built"
    page,       \* a built page open in a browser: its controls and its localStorage
    srv,        \* the preview server module: its server and io references, what it emitted
    rebuild,    \* the watcher's change handlers, one per file-change event
    client      \* the browsers connected to the preview server, one socket each

docvars == <<source, fm, config, doc, runs, once, host, rand, fileio, issues, written, success, pc>>

sitevars == <<srv, rebuild, client>>

vars == <<docvars, page, sitevars>>

\* no page is open
ClosedPage ==
    [ loaded |-> FALSE, stylesheetDisabled |-> TRUE, ariaPressed |-> "false",
      rootClass |-> FALSE, highContrast |-> "null", toggleListeners |-> 0,
      preferredFontSize |-> 0, rootFontSize |-> 0, savedSize |-> 0, currentSize |-> <<>> ]

InitDocument ==
    /\ doc = ParseFragment(RenderItems(ItemsOf(source), config))
    /\ runs = 0
    /\ once = EmptyTree
    /\ host = IdleHost
    /\ rand = <<>>
    /\ fileio = "ok"
    /\ issues = <<>>
    /\ written = NoPage
    /\ success = FALSE
    /\ pc = "parsed"

MaxStarts == 2

MaxEmits == 1

MaxEvents == 2

\* server.js lines 135-136: let server = null; let io = null (0 stands for null, a
\* positive number for the instance the n-th start() made; calls counts the
\* notifyChanges calls, changes lists the io instances that emitted)
NoServer ==
    [server |-> 0, io |-> 0, starts |-> 0, lastCall |-> "none", calls |-> 0, changes |-> <<>>]

\* no file-change event has arrived
NoRebuilds == [e \in 1..MaxEvents |-> [pc |-> "idle", result |-> "none", notified |-> FALSE]]

MaxClients == 2

MaxRequests == 2

\* a connected browser before its first click: the button enabled, nothing sent
NoClients ==
    [c \in 1..MaxClients |->
        [pc |-> "idle", disabled |-> FALSE, data |-> "none", received |-> 0, replies |-> 0,
         results |-> <<>>]]

InitSite ==
    /\ srv = NoServer
    /\ rebuild = NoRebuilds
    /\ client = NoClients

InitCommon ==
    /\ InitDocument
    /\ page = ClosedPage
    /\ InitSite

Init ==
    /\ source \in Sources("enhancer", {"full", "bare"})
    /\ fm \in Frontmatters
    /\ config \in BuildConfigs
    /\ InitCommon

InitAudit ==
    /\ source \in Sources("checker", {"bare"})
    /\ fm = [title |-> <<>>, language |-> <<>>]
    /\ config \in AuditConfigs
    /\ InitCommon

InitAria ==
    /\ source \in Sources("aria", {"bare"})
    /\ fm = [title |-> <<>>, language |-> <<>>]
    /\ config \in AuditConfigs
    /\ InitCommon

InitTables ==
    /\ source \in Sources("tables", {"full", "bare"})
    /\ fm = [title |-> <<>>, language |-> <<>>]
    /\ config = defaultConfig
    /\ InitCommon

\* the configurations a user's file yields: the defaults, one check off, or
\* checking off altogether
UserConfigs == AuditConfigs \cup {[defaultConfig EXCEPT !.checkAccessibility = FALSE]}

InitTest ==
    /\ source \in Sources("aria", {"bare"})
    /\ fm = [title |-> <<>>, language |-> <<>>]
    /\ config \in UserConfigs
    /\ InitCommon

InitRoles ==
    /\ source \in Sources("roles", {"full", "bare"})
    /\ fm = [title |-> <<>>, language |-> <<>>]
    /\ config = defaultConfig
    /\ InitCommon

InitMarkup ==
    /\ source \in Sources("markup", {"full", "bare"})
    /\ fm \in [title : {<<>>, <<"T">>}, language : {<<>>, <<"en">>}]
    /\ config = defaultConfig
    /\ InitCommon

\* a caller runs enhanceWithAria on the tree (again)
Enhance ==
    /\ pc \in {"parsed", "enhanced"}
    /\ runs < MaxRuns
    /\ \E r \in [1..DrawCount(doc, fm) -> RandPool] :
          /\ doc' = enhanceWithAria(doc, fm, r)
          /\ rand' = r
    /\ runs' = runs + 1
    /\ once' = IF runs = 0 THEN doc' ELSE once
    /\ pc' = "enhanced"
    /\ UNCHANGED <<source, fm, config, host, fileio, issues, written, success, page, sitevars>>

\* the generator processes the source file
\* what a processFile call leaves behind
Outcome(out) ==
    /\ doc' = out.page
    /\ issues' = out.issues
    /\ written' = out.written
    /\ success' = out.success

ProcessFile ==
    /\ pc = "parsed"
    /\ \E h \in Hosts, io \in {"ok", "fails"} :
          /\ (io = "fails" \/ ~config.checkAccessibility) => h = IdleHost
          /\ \E r \in [1..(IF io = "ok" THEN DrawCount(doc, fm) ELSE 0) -> RandPool] :
                /\ Outcome(processFile(ItemsOf(source), fm, config, h, r, io))
                /\ host' = h
                /\ rand' = r
                /\ fileio' = io
    /\ runs' = IF fileio' = "ok" THEN 1 ELSE 0
    /\ once' = doc'
    /\ pc' = "built"
    /\ UNCHANGED <<source, fm, config, page, sitevars>>

\* the 'test' command, lines 320-327: the flags it sets on its own config object
ForcedConfig(cfg) ==
    [cfg EXCEPT !.checkAccessibility = TRUE, !.checkWCAG = TRUE,
                !.checkHeadingHierarchy = TRUE, !.checkColorContrast = TRUE,
                !.validateHTML = TRUE, !.checkARIA = TRUE,
                !.checkKeyboardAccessibility = TRUE,
                !.checkScreenReaderAnnouncements = TRUE]

\* new AccessibleDocGenerator(options): the options are kept, and this.config is
\* what getConfig() loads (generator.js lines 17-23)
AccessibleDocGenerator(options, loaded) == [options |-> options, config |-> loaded]

\* the 'test' command: load the configuration, force the flags, construct the
\* generator with the forced object as options.config, build
TestCommand ==
    /\ pc = "parsed"
    /\ \E h \in Hosts, io \in {"ok", "fails"} :
          /\ (io = "fails" \/ ~config.checkAccessibility) => h = IdleHost
          /\ \E r \in [1..(IF io = "ok" THEN DrawCount(doc, fm) ELSE 0) -> RandPool] :
                /\ Outcome(processFile(ItemsOf(source), fm,
                                       AccessibleDocGenerator([config |-> ForcedConfig(config)],
                                                              config).config,
                                       h, r, io))
                /\ host' = h
                /\ rand' = r
                /\ fileio' = io
    /\ runs' = IF fileio' = "ok" THEN 1 ELSE 0
    /\ once' = doc'
    /\ pc' = "built"
    /\ UNCHANGED <<source, fm, config, page, sitevars>>

\* the preview server checks a page it is handed
Audit ==
    /\ pc = "parsed"
    /\ \E h \in AuditHosts :
          /\ issues' = checkAccessibility(Serialize(doc), config, h)
          /\ host' = h
    /\ pc' = "audited"
    /\ UNCHANGED <<source, fm, config, doc, runs, once, rand, fileio, written, success, page, sitevars>>

Next == Enhance \/ ProcessFile

Spec == Init /\ [][Next]_vars

NextAudit == Audit

SpecAudit == InitAudit /\ [][NextAudit]_vars

NextAria == Audit

SpecAria == InitAria /\ [][NextAria]_vars

NextTables == Enhance

SpecTables == InitTables /\ [][NextTables]_vars

NextTest == TestCommand

SpecTest == InitTest /\ [][NextTest]_vars

NextRoles == Enhance

SpecRoles == InitRoles /\ [][NextRoles]_vars

----------------------------------------------------------------------------
(* server.js and the watcher of the command line *)

\* start(docRoot, port), lines 143-220: a new server and a new io on it
start(s) ==
    [s EXCEPT !.server = s.starts + 1, !.io = s.starts + 1, !.starts = @ + 1,
              !.lastCall = "start"]

\* isRunning(), lines 226-228
isRunning(s) == s.server # 0

\* notifyChanges(), lines 233-237: io.emit('changes', ...) when io is set
notifyChanges(s) ==
    IF s.io # 0 THEN [s EXCEPT !.calls = @ + 1, !.changes = Append(@, s.io)]
    ELSE [s EXCEPT !.calls = @ + 1]

\* a stop() that lets go of the server only
stopServerOnly(s) ==
    IF s.server # 0 THEN [s EXCEPT !.server = 0, !.lastCall = "stop"]
    ELSE [s EXCEPT !.lastCall = "stop"]

\* stop(), lines 242-248
stop(s) ==
    IF s.server # 0 THEN [s EXCEPT !.server = 0, !.io = 0, !.lastCall = "stop"]
    ELSE [s EXCEPT !.lastCall = "stop"]

\* what generateDocs hands the handler that awaits it: a result with success
\* true or false, or an exception
RebuildOutcomes == {"success", "failure", "throws"}

\* a handler that notifies the server whatever the rebuild gave
OnRebuiltAlways(s, outcome) == notifyChanges(s)

\* cli lines 378-393, the handler after its await: the server is notified when
\* the result says success and the server is running
OnRebuilt(s, outcome) ==
    IF outcome = "success" /\ isRunning(s) THEN notifyChanges(s) ELSE s

Start ==
    /\ srv.starts < MaxStarts
    /\ srv' = start(srv)
    /\ UNCHANGED <<docvars, page, rebuild, client>>

Stop ==
    /\ srv' = stop(srv)
    /\ UNCHANGED <<docvars, page, rebuild, client>>

\* a caller of the module notifies the clients
NotifyChanges ==
    /\ srv.calls < MaxEmits
    /\ srv' = notifyChanges(srv)
    /\ UNCHANGED <<docvars, page, rebuild, client>>

\* cli lines 372-376: a 'change' event starts its handler, which awaits generateDocs
FileChange(e) ==
    /\ rebuild[e].pc = "idle"
    /\ rebuild' = [rebuild EXCEPT ![e].pc = "building"]
    /\ UNCHANGED <<docvars, page, srv, client>>

\* cli lines 376-393: generateDocs settles and the handler runs to its end
Rebuilt(e) ==
    /\ rebuild[e].pc = "building"
    /\ \E outcome \in RebuildOutcomes :
          /\ srv' = OnRebuilt(srv, outcome)
          /\ rebuild' = [rebuild EXCEPT ![e] = [pc |-> "done", result |-> outcome,
                                                notified |-> srv'.calls # srv.calls]]
    /\ UNCHANGED <<docvars, page, client>>

InitServer ==
    /\ source = [family |-> "enhancer", wrap |-> "full", kids |-> <<>>]
    /\ fm = [title |-> <<>>, language |-> <<>>]
    /\ config = defaultConfig
    /\ InitDocument
    /\ page = ClosedPage
    /\ InitSite

NextServer ==
    \/ Start
    \/ Stop
    \/ NotifyChanges
    \/ \E e \in 1..MaxEvents : FileChange(e)
    \/ \E e \in 1..MaxEvents : Rebuilt(e)

SpecServer == InitServer /\ [][NextServer]_vars

----------------------------------------------------------------------------
(* server.js lines 185-202 and accessibility.js lines 480-501: live testing *)

\* socket.emit('accessibility-results', payload)
emitResults(cl, payload) ==
    [cl EXCEPT !.replies = @ + 1, !.results = payload, !.pc = "replying"]

\* a handler whose catch keeps quiet
onTestAccessibilityQuietCatch(cl) ==
    IF cl.data = "null"
    THEN [cl EXCEPT !.received = @ + 1, !.pc = "idle"]
    ELSE [cl EXCEPT !.received = @ + 1, !.pc = "checking"]

\* server.js lines 189-195, up to the await: data.html of a message without a
\* payload throws inside the try, and the catch emits the error at once
onTestAccessibility(cl) ==
    IF cl.data = "null"
    THEN emitResults([cl EXCEPT !.received = @ + 1], <<"error">>)
    ELSE [cl EXCEPT !.received = @ + 1, !.pc = "checking"]

CheckOutcomes == {"resolved", "rejected"}

\* lines 191-196, after the await: the issues are emitted when the check
\* resolved, and the catch emits the error when it rejected
onChecked(cl, outcome) ==
    IF outcome = "resolved" THEN emitResults(cl, <<"issues">>) ELSE emitResults(cl, <<"error">>)

\* accessibility.js lines 481-491: the click disables the button and sends the page
Click(c) ==
    /\ client[c].pc = "idle"
    /\ ~client[c].disabled
    /\ client[c].received < MaxRequests
    /\ client' = [client EXCEPT ![c].disabled = TRUE, ![c].data = "html", ![c].pc = "sent"]
    /\ UNCHANGED <<docvars, page, srv, rebuild>>

\* some other program on the socket sends the message without a payload
SendBare(c) ==
    /\ client[c].pc = "idle"
    /\ ~client[c].disabled
    /\ client[c].received < MaxRequests
    /\ client' = [client EXCEPT ![c].data = "null", ![c].pc = "sent"]
    /\ UNCHANGED <<docvars, page, srv, rebuild>>

\* the server receives 'test-accessibility' on the socket
TestAccessibility(c) ==
    /\ client[c].pc = "sent"
    /\ client' = [client EXCEPT ![c] = onTestAccessibility(@)]
    /\ UNCHANGED <<docvars, page, srv, rebuild>>

\* checkAccessibility settles and the handler goes on
Checked(c) ==
    /\ client[c].pc = "checking"
    /\ \E outcome \in CheckOutcomes : client' = [client EXCEPT ![c] = onChecked(@, outcome)]
    /\ UNCHANGED <<docvars, page, srv, rebuild>>

\* accessibility.js lines 494-501: the results arrive and the button is reset
AccessibilityResults(c) ==
    /\ client[c].pc = "replying"
    /\ client' = [client EXCEPT ![c].disabled = FALSE, ![c].pc = "idle"]
    /\ UNCHANGED <<docvars, page, srv, rebuild>>

InitSocket ==
    /\ source = [family |-> "enhancer", wrap |-> "full", kids |-> <<>>]
    /\ fm = [title |-> <<>>, language |-> <<>>]
    /\ config = defaultConfig
    /\ InitDocument
    /\ page = ClosedPage
    /\ srv = start(NoServer)
    /\ rebuild = NoRebuilds
    /\ client = NoClients

NextSocket ==
    \/ Stop
    \/ \E c \in 1..MaxClients : Click(c)
    \/ \E c \in 1..MaxClients : SendBare(c)
    \/ \E c \in 1..MaxClients : TestAccessibility(c)
    \/ \E c \in 1..MaxClients : Checked(c)
    \/ \E c \in 1..MaxClients : AccessibilityResults(c)

\* the event loop runs the continuation of a settled check, and a connected
\* socket delivers what was emitted on it
SpecSocket ==
    /\ InitSocket
    /\ [][NextSocket]_vars
    /\ \A c \in 1..MaxClients :
          /\ WF_vars(TestAccessibility(c))
          /\ WF_vars(Checked(c))
          /\ WF_vars(AccessibilityResults(c))

NextMarkup == Enhance

----------------------------------------------------------------------------
(* accessibility.js and the default template's scripts: a page in the browser *)

BoolStr(b) == IF b THEN "true" ELSE "false"

\* default.js lines 46-70, the head's DOMContentLoaded handler: the stylesheet is
\* enabled for a stored 'true'; the stored font size is a bare number, which the
\* style declaration does not take
HeadScript(u) ==
    [u EXCEPT !.stylesheetDisabled = IF u.highContrast = "true" THEN FALSE ELSE @]

\* initHighContrastToggle, lines 10-26 and the addEventListener of line 28 (the
\* template holds both the button and the stylesheet)
initHighContrastToggle(u) ==
    [u EXCEPT !.stylesheetDisabled = ~(u.highContrast = "true"),
              !.ariaPressed = BoolStr(u.highContrast = "true"),
              !.rootClass = IF u.highContrast = "true" THEN TRUE ELSE @,
              !.toggleListeners = @ + 1]

\* lines 28-49: one click listener of the toggle button
ToggleListener(u) ==
    LET isEnabled == u.stylesheetDisabled = FALSE IN
    [u EXCEPT !.stylesheetDisabled = isEnabled,
              !.ariaPressed = BoolStr(~isEnabled),
              !.highContrast = BoolStr(~isEnabled),
              !.rootClass = ~isEnabled]

\* button.click(): every registered listener runs, in the order of registration
RECURSIVE DispatchToggle(_, _)
DispatchToggle(u, n) == IF n = 0 THEN u ELSE DispatchToggle(ToggleListener(u), n - 1)

\* initFontSizeControls, lines 66-85: a closure with its own currentSize (sizes are
\* stored as decimal strings and read back with parseInt; 0 stands for no item)
initFontSizeControls(u) ==
    [u EXCEPT !.savedSize = u.preferredFontSize,
              !.currentSize = Append(@, IF u.preferredFontSize # 0
                                        THEN u.preferredFontSize ELSE 100),
              !.rootFontSize = IF u.preferredFontSize # 0 THEN u.preferredFontSize ELSE @]

\* updateFontSize, lines 125-131
updateFontSize(u, size) == [u EXCEPT !.rootFontSize = size, !.preferredFontSize = size]

\* lines 88-93: the decrease listener of closure k
DecreaseListener(u, k) ==
    IF u.currentSize[k] > 80
    THEN updateFontSize([u EXCEPT !.currentSize[k] = @ - 10], u.currentSize[k] - 10)
    ELSE u

\* lines 96-99
ResetListener(u, k) == updateFontSize([u EXCEPT !.currentSize[k] = 100], 100)

\* an increase listener that steps past the upper bound
IncreaseListenerPastBound(u, k) ==
    IF u.currentSize[k] <= 200
    THEN updateFontSize([u EXCEPT !.currentSize[k] = @ + 10], u.currentSize[k] + 10)
    ELSE u

\* lines 102-107
IncreaseListener(u, k) ==
    IF u.currentSize[k] < 200
    THEN updateFontSize([u EXCEPT !.currentSize[k] = @ + 10], u.currentSize[k] + 10)
    ELSE u

\* a click on a font button: the listener of every closure runs, in order
RECURSIVE DispatchFont(_, _, _)
DispatchFont(u, Listener(_, _), k) ==
    IF k > Len(u.currentSize) THEN u ELSE DispatchFont(Listener(u, k), Listener, k + 1)

\* the three DOMContentLoaded handlers in the order they were registered: the
\* head's script, accessibility.js (lines 681-699), the script at the end of body
\* (default.js lines 140-157)
Loaded(u) ==
    [initFontSizeControls(initHighContrastToggle(
        initFontSizeControls(initHighContrastToggle(HeadScript(u)))))
     EXCEPT !.loaded = TRUE]

\* the storage earlier visits left behind
StoredContrast == {"null", "true", "false"}
StoredSizes == {0, 85, 150, 200}

InitPage ==
    /\ source = [family |-> "enhancer", wrap |-> "full", kids |-> <<>>]
    /\ fm = [title |-> <<>>, language |-> <<>>]
    /\ config = defaultConfig
    /\ InitDocument
    /\ \E hc \in StoredContrast, size \in StoredSizes :
          page = [ClosedPage EXCEPT !.highContrast = hc, !.preferredFontSize = size]
    /\ InitSite

DOMContentLoaded ==
    /\ ~page.loaded
    /\ page' = Loaded(page)
    /\ UNCHANGED <<docvars, sitevars>>

ClickHighContrast ==
    /\ page.loaded
    /\ page' = DispatchToggle(page, page.toggleListeners)
    /\ UNCHANGED <<docvars, sitevars>>

ClickDecrease ==
    /\ page.loaded
    /\ page' = DispatchFont(page, DecreaseListener, 1)
    /\ UNCHANGED <<docvars, sitevars>>

ClickReset ==
    /\ page.loaded
    /\ page' = DispatchFont(page, ResetListener, 1)
    /\ UNCHANGED <<docvars, sitevars>>

ClickIncrease ==
    /\ page.loaded
    /\ page' = DispatchFont(page, IncreaseListener, 1)
    /\ UNCHANGED <<docvars, sitevars>>

NextPage ==
    \/ DOMContentLoaded
    \/ ClickHighContrast
    \/ ClickDecrease
    \/ ClickReset
    \/ ClickIncrease

SpecPage == InitPage /\ [][NextPage]_vars


SpecMarkup == InitMarkup /\ [][NextMarkup]_vars

----------------------------------------------------------------------------
(* Properties of the enhancer and of processFile, checked under Spec *)

CountIn(seq, Test(_)) == Len(SelectSeq(seq, Test))

\* the tree the enhancer was handed
SourceTree == ParseFragment(RenderItems(ItemsOf(source), config))

\* the main landmark by the priority of lines 93-100
ResolvedMain(t) ==
    LET mains == ByTag(t, {"main"}) IN
    IF mains # <<>> THEN Head(mains)
    ELSE FirstOf(SelectSeq(Order(t), LAMBDA n : IsMainCandidate(t, n)))

\* an anchor the enhancer injected as skip link (no source document has one
\* of class skip-link)
IsInjectedSkipLink(t, n) ==
    /\ t[n].tag = "a"
    /\ GetAttr(t, n, "class") = <<"skip", "-", "link">>
    /\ t[n].text = SkipLinkText

\* C1: a second run of enhanceWithAria on the tree it already enhanced leaves
\* every element, attribute and id as the first run left them.
C1_EnhancerIdempotent == runs >= 2 => doc = once

\* C3: whenever the enhancer injects a skip link, its href is '#' followed by
\* the id of the resolved main landmark, whatever id that element carries.
C3_SkipLinkTargetsMain ==
    (runs >= 1 /\ fileio = "ok") =>
        \A n \in 1..Len(doc) :
            IsInjectedSkipLink(doc, n) =>
                /\ ResolvedMain(doc) # 0
                /\ GetAttr(doc, n, "href") = <<"#">> \o ElId(doc, ResolvedMain(doc))

E2ESource == [family |-> "enhancer", wrap |-> "full", kids |-> <<1>>]

E2EFrontmatter == [title |-> <<"T">>, language |-> <<"en">>]

E2ECase ==
    /\ pc = "built"
    /\ fileio = "ok"
    /\ source = E2ESource
    /\ fm = E2EFrontmatter
    /\ config = defaultConfig

\* C8: for html > body > img[src] with frontmatter {title: T, language: en} the
\* enhanced tree has html[lang=en], a title holding T, and a body whose children
\* are the skip link and then a main[role=main][id=main-content] wrapping the
\* image; checkAccessibility on its serialization returns exactly one screen-reader
\* issue, 'Image missing alt attribute'.
C8_EndToEnd ==
    E2ECase =>
        LET html == FirstOf(ByTag(doc, {"html"}))
            body == FirstOf(ByTag(doc, {"body"}))
            titles == ByTag(doc, {"title"})
            sr == SelectSeq(issues, LAMBDA i : i.type = "screen-reader")
        IN /\ html # 0 /\ GetAttr(doc, html, "lang") = <<"en">>
           /\ Len(titles) = 1 /\ TextContent(doc, Head(titles)) = <<"T">>
           /\ body # 0 /\ Len(doc[body].kids) = 2
           /\ IsInjectedSkipLink(doc, doc[body].kids[1])
           /\ LET main == doc[body].kids[2] IN
              /\ doc[main].tag = "main"
              /\ GetAttr(doc, main, "role") = <<"main">>
              /\ ElId(doc, main) = MainContentId
              /\ Len(doc[main].kids) = 1
              /\ doc[doc[main].kids[1]].tag = "img"
              /\ GetAttr(doc, doc[main].kids[1], "src") = <<"a", ".", "png">>
           /\ Len(sr) = 1
           /\ sr[1].msg = MissingAltMsg

C8_Witness ==
    /\ E2ECase
    /\ \E i \in 1..Len(issues) : issues[i].type = "screen-reader"
    /\ host.axe = "rejects"

SameOutput(out) == out.written = written /\ out.success = success

\* C9: the page processFile writes and the success flag it returns are the same
\* with accessibility checking enabled or disabled and whatever the external
\* engines make checkAccessibility return.
C9_AuditorAdvisory ==
    pc = "built" =>
        \A flag \in BOOLEAN, h \in Hosts :
            SameOutput(processFile(ItemsOf(source), fm,
                                   [config EXCEPT !.checkAccessibility = flag],
                                   h, rand, fileio))

C9_Witness ==
    /\ pc = "built"
    /\ config.checkAccessibility
    /\ success
    /\ written # NoPage
    /\ Len(issues) > 1
    /\ ~host.gcs

\* C10: with indicateExternalLinks = false no absolute http(s) anchor carries the
\* '<text> (external link)' aria-label after the enhancer; with it true every such
\* anchor that had no aria-label and no external hint gets that label.
C10_ExternalLinkGate ==
    (runs >= 1 /\ fileio = "ok") =>
        \A n \in 1..Len(SourceTree) :
            (SourceTree[n].tag = "a" /\ IsExternalHref(GetAttr(SourceTree, n, "href"))) =>
                LET label == TextContent(doc, n) \o ExternalSuffix IN
                IF config.indicateExternalLinks
                THEN (GetAttr(SourceTree, n, "aria-label") = <<>>
                      /\ ~Includes(ToLower(TextContent(SourceTree, n)), "external"))
                     => GetAttr(doc, n, "aria-label") = label
                ELSE GetAttr(doc, n, "aria-label") # label

----------------------------------------------------------------------------
(* Properties of the checker, checked under SpecAudit *)

\* the document the checker builds from the page it is handed
AuditDoc == ParseDocument(Serialize(doc))

\* the rule behind this flag ran and its issues were returned
Ran(flag) ==
    /\ pc = "audited"
    /\ config[flag]
    /\ \A i \in 1..Len(issues) : issues[i].type # "error"

AxeRaised == config.checkWCAG /\ host.axe = "rejects"

ValidatorRaised == config.validateHTML /\ host.validator = "rejects"

ContrastRaised == config.checkColorContrast /\ checkColorContrast(AuditDoc, host).thrown

\* what the checks that raised nothing hand back, in the order they run
IssuesOfQuietChecks ==
    (IF config.checkWCAG /\ ~AxeRaised THEN runAxeChecks(AuditDoc, host.axe) ELSE <<>>)
    \o (IF config.checkHeadingHierarchy THEN checkHeadingHierarchy(AuditDoc) ELSE <<>>)
    \o (IF config.checkColorContrast /\ ~ContrastRaised
        THEN checkColorContrast(AuditDoc, host).issues ELSE <<>>)
    \o (IF config.validateHTML /\ ~ValidatorRaised
        THEN validateHTML(Serialize(doc), host.validator) ELSE <<>>)
    \o (IF config.checkARIA THEN checkARIAUsage(AuditDoc).issues ELSE <<>>)
    \o (IF config.checkKeyboardAccessibility THEN checkKeyboardAccessibility(AuditDoc) ELSE <<>>)
    \o (IF config.checkScreenReaderAnnouncements
        THEN checkScreenReaderAnnouncements(AuditDoc) ELSE <<>>)

\* C2: when a rule check raises an exception, the failure becomes a single issue
\* and the issues of every other enabled check, before and after it, are in the
\* returned list.
C2_RuleIsolation ==
    (pc = "audited" /\ (AxeRaised \/ ValidatorRaised \/ ContrastRaised)) =>
        /\ AxeRaised => CountIn(issues, LAMBDA i : i.type = "wcag") = 1
        /\ ValidatorRaised => CountIn(issues, LAMBDA i : i.type = "html") = 1
        /\ ContrastRaised => CountIn(issues, LAMBDA i : i.type \in {"error", "contrast"}) = 1
        /\ \A k \in 1..Len(IssuesOfQuietChecks) : InSeq(IssuesOfQuietChecks[k], issues)

IsSkipIssue(i, n) ==
    i.type = "heading" /\ i.el = n /\ Head(i.msg) = "Heading level skipped from h"

\* C4: the headings that get a 'Heading level skipped' issue are exactly those
\* after the first whose level exceeds the preceding heading's by more than 1,
\* one issue each; the first heading gets none.
C4_HeadingSkipRule ==
    Ran("checkHeadingHierarchy") =>
        LET hs == ByTag(AuditDoc, HeadingTags) IN
        \A k \in 1..Len(hs) :
            CountIn(issues, LAMBDA i : IsSkipIssue(i, hs[k]))
              = IF k > 1 /\ LevelOf(AuditDoc[hs[k]].tag) > LevelOf(AuditDoc[hs[k - 1]].tag) + 1
                THEN 1 ELSE 0

\* C5: an img whose alt is present and blank gets the 'Non-decorative image has
\* empty alt text' issue exactly when it has no 'decorative' class, is not inside
\* a figure and does not have aria-hidden="true".
C5_EmptyAltRule ==
    Ran("checkScreenReaderAnnouncements") =>
        \A n \in 1..Len(AuditDoc) :
            (AuditDoc[n].tag = "img" /\ HasAttr(AuditDoc, n, "alt")
                /\ IsBlank(GetAttr(AuditDoc, n, "alt"))) =>
                ((\E k \in 1..Len(issues) : issues[k].msg = EmptyAltMsg /\ issues[k].el = n)
                  <=> (/\ ~HasClass(AuditDoc, n, "decorative")
                       /\ Closest(AuditDoc, n, "figure") = 0
                       /\ GetAttr(AuditDoc, n, "aria-hidden") # <<"true">>))

ElementsWithId(t, v) == SelectSeq(Order(t), LAMBDA n : HasAttr(t, n, "id") /\ ElId(t, n) = v)

\* C6: an id value carried by k elements gets exactly k-1 'Duplicate ID' issues,
\* one for each occurrence after the first; an id that occurs once gets none.
C6_DuplicateIdCount ==
    Ran("checkScreenReaderAnnouncements") =>
        \A n \in 1..Len(AuditDoc) :
            HasAttr(AuditDoc, n, "id") =>
                LET v == ElId(AuditDoc, n)
                    same == ElementsWithId(AuditDoc, v)
                IN /\ CountIn(issues, LAMBDA i : i.msg = DuplicateIdMsg(v)) = Len(same) - 1
                   /\ (\E k \in 1..Len(issues) :
                           issues[k].msg = DuplicateIdMsg(v) /\ issues[k].el = n)
                      <=> n # Head(same)

\* the ids an aria-labelledby value lists
ListedIds(value) == SelectSeq(Split(value), LAMBDA id : id # <<>>)

IsDanglingIssue(i, n) ==
    i.type = "screen-reader" /\ i.el = n
    /\ Head(i.msg) = "aria-labelledby references non-existent ID: \""

\* C7: an element with aria-labelledby gets as many 'references non-existent ID'
\* issues as its value lists ids that no element carries, each naming one of
\* them; ids that exist give no issue.
C7_DanglingLabelledby ==
    Ran("checkScreenReaderAnnouncements") =>
        \A n \in 1..Len(AuditDoc) :
            HasAttr(AuditDoc, n, "aria-labelledby") =>
                LET missing == SelectSeq(ListedIds(GetAttr(AuditDoc, n, "aria-labelledby")),
                                         LAMBDA id : ElementsWithId(AuditDoc, id) = <<>>)
                IN /\ CountIn(issues, LAMBDA i : IsDanglingIssue(i, n)) = Len(missing)
                   /\ \A k \in 1..Len(issues) :
                         IsDanglingIssue(issues[k], n) =>
                            \E m \in 1..Len(missing) : issues[k].msg = DanglingMsg(missing[m])

\* the issue types a check contributes; an exception that leaves the contrast
\* check surfaces as the error issue
TypesOf(flag) ==
    CASE flag = "checkWCAG" -> {"wcag"}
      [] flag = "checkHeadingHierarchy" -> {"heading"}
      [] flag = "checkColorContrast" -> {"contrast", "error"}
      [] flag = "validateHTML" -> {"html"}
      [] flag = "checkARIA" -> {"aria"}
      [] flag = "checkKeyboardAccessibility" -> {"keyboard"}
      [] OTHER -> {"screen-reader"}

Without(seq, types) == SelectSeq(seq, LAMBDA i : i.type \notin types)

SkipsOnly(flag, off) ==
    /\ \A k \in 1..Len(off) : off[k].type \notin TypesOf(flag)
    /\ Without(off, TypesOf(flag)) = Without(issues, TypesOf(flag))

\* C11: switching one of the seven check flags off removes that check's issues
\* from the result of checkAccessibility and leaves the issues of every other
\* enabled check as they were.
C11_IndependentToggles ==
    pc = "audited" =>
        \A f \in CheckFlags :
            config[f] =>
                SkipsOnly(f, checkAccessibility(Serialize(doc),
                                                [config EXCEPT ![f] = FALSE], host))

IssueKinds == <<"wcag", "heading", "contrast", "html", "aria", "keyboard", "screen-reader">>

RankOf(type) == CHOOSE k \in 1..Len(IssueKinds) : IssueKinds[k] = type

\* C12: in a list checkAccessibility returns from a run without exception the
\* issues come grouped by check in the order WCAG engine, heading hierarchy,
\* colour contrast, HTML validity, ARIA usage, keyboard, screen reader.
C12_FixedIssueOrder ==
    (pc = "audited" /\ \A k \in 1..Len(issues) : issues[k].type # "error") =>
        \A i, j \in 1..Len(issues) :
            i < j => RankOf(issues[i].type) <= RankOf(issues[j].type)

C12_Witness ==
    /\ pc = "audited"
    /\ \E i, j, k \in 1..Len(issues) :
          /\ issues[i].type = "wcag"
          /\ issues[j].type = "aria"
          /\ issues[k].type = "screen-reader"

----------------------------------------------------------------------------
(* Properties of the enhancer's passes, checked under Spec and SpecMarkup *)

NoDuplicateIds(t) ==
    \A m, n \in 1..Len(t) :
        (m # n /\ ElId(t, m) # <<>> /\ ElId(t, n) # <<>>) => ElId(t, m) # ElId(t, n)

\* the enhancer gave element n of the enhanced tree its id
AssignedId(n) ==
    /\ HasAttr(doc, n, "id")
    /\ (n > Len(SourceTree) \/ ~HasAttr(SourceTree, n, "id"))

\* C13: every id the enhancer assigns is non-empty and differs from the id of
\* every other element, so a document without duplicate ids has none after
\* enhancement.
C13_GeneratedIdsUnique ==
    (runs >= 1 /\ fileio = "ok" /\ NoDuplicateIds(SourceTree)) =>
        /\ \A n \in 1..Len(doc) : AssignedId(n) => ElId(doc, n) # <<>>
        /\ NoDuplicateIds(doc)

\* C14: after the landmark pass every header element has role="banner" and every
\* footer element has role="contentinfo", however many there are.
C14_HeaderFooterLandmarks ==
    runs >= 1 =>
        \A n \in 1..Len(doc) :
            /\ doc[n].tag = "header" => GetAttr(doc, n, "role") = <<"banner">>
            /\ doc[n].tag = "footer" => GetAttr(doc, n, "role") = <<"contentinfo">>

\* the alt text of the first image inside the anchor, empty when there is none
EnclosedAlt(t, link) ==
    LET imgs == SelectSeq(Descendants(t, link), LAMBDA n : t[n].tag = "img") IN
    IF imgs = <<>> THEN <<>> ELSE GetAttr(t, Head(imgs), "alt")

TextlessLink(t, n) ==
    /\ t[n].tag = "a"
    /\ GetAttr(t, n, "href") # <<>>
    /\ IsBlank(TextContent(t, n))
    /\ ~HasAttr(t, n, "aria-label")

\* C15: an anchor with an href, no visible text and no aria-label gets, from
\* enhanceLinks, the alt text of its enclosed image as aria-label when that alt is
\* non-empty, and otherwise the class 'a11y-warning' and a data-a11y-warning
\* attribute; internal, fragment and absolute http(s) links alike.
C15_TextlessLinks ==
    runs >= 1 =>
        \A n \in 1..Len(SourceTree) :
            TextlessLink(SourceTree, n) =>
                IF EnclosedAlt(SourceTree, n) # <<>>
                THEN GetAttr(once, n, "aria-label") = EnclosedAlt(SourceTree, n)
                ELSE /\ HasClass(once, n, "a11y-warning")
                     /\ HasAttr(once, n, "data-a11y-warning")

\* a tree with neither an html nor a body element
IsFragment(t) == ByTag(t, {"html", "body"}) = <<>>

\* the language, title, main-wrapper and skip-link passes left the tree alone
StructurePassesIdle ==
    /\ Len(once) = Len(SourceTree)
    /\ ensureHtmlLangAttribute(SourceTree, fm.language) = SourceTree
    /\ ensureDocumentTitle(SourceTree, fm.title) = SourceTree
    /\ Len(ResolveMain(SourceTree)) = Len(SourceTree)
    /\ (ResolvedMain(SourceTree) = 0 => ResolveMain(SourceTree) = SourceTree)
    /\ addSkipNavigation(SourceTree) = SourceTree

IsSkipTarget(t, n) ==
    /\ t[n].tag = "a"
    /\ HasAttr(t, n, "href")
    /\ GetAttr(t, n, "href") \in { <<"#", "main">>, <<"#", "main", "-", "content">>,
                                   <<"#", "content">> }

HasSkipTarget(t) == \E n \in 1..Len(t) : IsSkipTarget(t, n)

InjectedSkipLinks(t) == SelectSeq(Order(t), LAMBDA n : IsInjectedSkipLink(t, n))

\* C17: enhancing a document with a body and no anchor to #main, #main-content
\* or #content adds exactly one anchor, the skip link, as first child of body;
\* enhancing one that has such an anchor adds none.
C17_SkipLinkCount ==
    (runs >= 1 /\ fileio = "ok" /\ ByTag(SourceTree, {"body"}) # <<>>) =>
        IF HasSkipTarget(SourceTree)
        THEN /\ Len(ByTag(once, {"a"})) = Len(ByTag(SourceTree, {"a"}))
             /\ InjectedSkipLinks(once) = <<>>
        ELSE /\ Len(ByTag(once, {"a"})) = Len(ByTag(SourceTree, {"a"})) + 1
             /\ Len(InjectedSkipLinks(once)) = 1
             /\ Head(once[Head(ByTag(once, {"body"}))].kids) = Head(InjectedSkipLinks(once))

C17_Witness ==
    /\ runs >= 1
    /\ fileio = "ok"
    /\ ByTag(SourceTree, {"body"}) # <<>>
    /\ HasSkipTarget(SourceTree)
    /\ Len(source.kids) = MaxKids
    /\ once # SourceTree

\* element m of the enhanced tree is the main landmark, resolved from element
\* before of the source tree (0 when the main had to be synthesized)
MainResolved(m, before) ==
    /\ m # 0
    /\ GetAttr(once, m, "role") = <<"main">>
    /\ ElId(once, m) # <<>>
    /\ before # 0 => m = before
    /\ IF before # 0 /\ ElId(SourceTree, before) # <<>>
       THEN ElId(once, m) = ElId(SourceTree, before)
       ELSE ElId(once, m) = <<"main", "-", "content">>

----------------------------------------------------------------------------
(* Further properties of the checker, checked under SpecAudit *)

IssueKind == {"wcag", "heading", "contrast", "html", "aria", "keyboard", "screen-reader",
              "error"}

\* C19: for every input and every configuration checkAccessibility resolves to a
\* list, and every element of the list has a type of the closed set wcag, heading,
\* contrast, html, aria, keyboard, screen-reader, error.
C19_ClosedIssueKinds ==
    pc = "audited" =>
        /\ DOMAIN issues = 1..Len(issues)
        /\ \A k \in DOMAIN issues : issues[k].type \in IssueKind

C19_Witness ==
    /\ pc = "audited"
    /\ host.validator = "messages"
    /\ \E k \in 1..Len(issues) : issues[k].type = "html" /\ issues[k].sub = "warning"
    /\ \E k \in 1..Len(issues) : issues[k].type = "keyboard"

----------------------------------------------------------------------------
(* Further properties of the enhancer, checked under Spec *)

\* the source has a body, no main element and no candidate container
NeedsMainWrapper ==
    /\ ByTag(SourceTree, {"body"}) # <<>>
    /\ ResolvedMain(SourceTree) = 0

\* in tree t element body holds only the synthesized main (and the skip link,
\* once injected), and that main holds what the source's body held, in order
WrappedIn(t, body, newMain) ==
    /\ SelectSeq(t[body].kids, LAMBDA n : ~IsInjectedSkipLink(t, n)) = <<newMain>>
    /\ t[body].text = <<>>
    /\ t[newMain].tag = "main"
    /\ t[newMain].kids = SourceTree[body].kids
    /\ t[newMain].text = SourceTree[body].text

\* C20: when the source has no main element and no candidate container, the move
\* loop ends with the new main as body's only child (the skip link comes later)
\* and the main's children are body's former children in their original order,
\* none lost or duplicated.
C20_MainWrapperSynthesis ==
    (runs >= 1 /\ fileio = "ok" /\ NeedsMainWrapper) =>
        /\ ResolveMain(SourceTree)[Head(ByTag(SourceTree, {"body"}))].kids
               = << Len(SourceTree) + 1 >>
        /\ WrappedIn(ResolveMain(SourceTree), Head(ByTag(SourceTree, {"body"})),
                     Len(SourceTree) + 1)
        /\ Len(ByTag(once, {"main"})) = 1
        /\ WrappedIn(once, Head(ByTag(SourceTree, {"body"})), Head(ByTag(once, {"main"})))

C20_Witness ==
    /\ runs >= 1
    /\ fileio = "ok"
    /\ NeedsMainWrapper
    /\ Len(SourceTree[Head(ByTag(SourceTree, {"body"}))].kids) >= 2
    /\ ByTag(once, {"main"}) # <<>>
    /\ once[Head(ByTag(once, {"main"}))].kids
           = SourceTree[Head(ByTag(SourceTree, {"body"}))].kids

----------------------------------------------------------------------------
(* The contrast threshold, checked under SpecAudit *)

\* both colours of the style are resolved and parse to a triple
ColoursResolved(style) ==
    /\ parseColor(style.color) # <<>>
    /\ parseColor(style.backgroundColor) # <<>>

\* the minimum the rule asks for, as the issue message prints it
RequiredMinimum(style) ==
    IF \/ style.fontSize \in {"18px", "24px"}
       \/ (style.fontSize \in {"14px", "16px"} /\ style.fontWeight = "700")
    THEN "3" ELSE "4.5"

BelowMinimum(style) ==
    ContrastRatio(parseColor(style.color), parseColor(style.backgroundColor))
        < (IF RequiredMinimum(style) = "3" THEN 3000 ELSE 4500)

ContrastIssuesOf(n) == SelectSeq(issues, LAMBDA i : i.type = "contrast" /\ i.el = n)

\* C21: with the contrast check enabled, every text-bearing element whose colours
\* are resolved gets exactly one contrast issue when its ratio is below the minimum
\* (3 for text of 18px or more, or 14px or more at weight 700 or more; 4.5
\* otherwise), the issue naming that minimum, and no contrast issue otherwise.
C21_ContrastThreshold ==
    (pc = "audited" /\ config.checkColorContrast /\ ColoursResolved(host.style)) =>
        \A k \in 1..Len(ByTag(AuditDoc, TextTags)) :
            IF BelowMinimum(host.style)
            THEN /\ Len(ContrastIssuesOf(ByTag(AuditDoc, TextTags)[k])) = 1
                 /\ ContrastIssuesOf(ByTag(AuditDoc, TextTags)[k])[1].msg[4]
                        = RequiredMinimum(host.style)
            ELSE ContrastIssuesOf(ByTag(AuditDoc, TextTags)[k]) = <<>>

\* the same with a getComputedStyle in the global scope
C21_ContrastThresholdStyled == host.gcs => C21_ContrastThreshold

----------------------------------------------------------------------------
(* The ARIA check, checked under SpecAria *)

\* the attributes the rule asks of a role
RequiredOf(role) ==
    CASE role = <<"checkbox">> -> {"aria-checked"}
      [] role = <<"combobox">> -> {"aria-expanded"}
      [] role = <<"slider">> -> {"aria-valuemin", "aria-valuemax", "aria-valuenow"}
      [] role = <<"progressbar">> -> {"aria-valuemin", "aria-valuemax", "aria-valuenow"}
      [] role = <<"scrollbar">> -> {"aria-valuemin", "aria-valuemax", "aria-valuenow"}
      [] role = <<"listbox">> -> {"aria-multiselectable"}
      [] role = <<"radiogroup">> -> {"aria-required"}
      [] OTHER -> {}

\* the 'missing required attribute' issues of element n
MissingIssuesOf(n) ==
    SelectSeq(issues, LAMBDA i : /\ i.type = "aria"
                                 /\ i.el = n
                                 /\ Head(i.msg) = "Element with role=\"")

\* C22: with the ARIA check enabled, every element with a role attribute gets as
\* many 'missing required attribute' issues as attributes required for its role
\* it lacks, and none when the role requires nothing.
C22_RequiredAriaAttributes ==
    (pc = "audited" /\ config.checkARIA) =>
        \A n \in 1..Len(AuditDoc) :
            HasAttr(AuditDoc, n, "role") =>
                Len(MissingIssuesOf(n))
                    = Cardinality({ attr \in RequiredOf(GetAttr(AuditDoc, n, "role")) :
                                      ~HasAttr(AuditDoc, n, attr) })

\* the element roles of the audited document
RolesAudited == { GetAttr(AuditDoc, n, "role") : n \in { m \in 1..Len(AuditDoc) : HasAttr(AuditDoc, m, "role") } }

\* the same for documents whose roles are no inherited property name and whose
\* style can be read
C22_RequiredAriaAttributesOwnRoles ==
    (host.gcs /\ RolesAudited \cap ObjectPrototypeKeys = {}) => C22_RequiredAriaAttributes

----------------------------------------------------------------------------
(* The table pass, checked under SpecTables *)

\* table.caption: the first caption child of the table, 0 for null
CaptionOf(t, table) == FirstOf(SelectSeq(t[table].kids, LAMBDA k : t[k].tag = "caption"))

IsHeading(t, n) == n # 0 /\ t[n].tag \in {"h1", "h2", "h3", "h4", "h5", "h6"}

\* the table is named by the heading before it, or else by a label: the one it
\* had, or 'Table'
TableNamed(t, table, before) ==
    IF IsHeading(t, PrevSibling(t, table))
    THEN /\ ElId(t, PrevSibling(t, table)) # <<>>
         /\ GetAttr(t, table, "aria-labelledby") = ElId(t, PrevSibling(t, table))
    ELSE /\ HasAttr(t, table, "aria-label")
         /\ GetAttr(t, table, "aria-label")
                = (IF HasAttr(before, table, "aria-label")
                   THEN GetAttr(before, table, "aria-label") ELSE <<"Table">>)

\* C23: in the enhanced tree every table without a caption is named: by the
\* non-empty id of the heading that immediately precedes it, or else by an
\* aria-label, the one it had kept and 'Table' assigned when it had none.
C23_TableLabelling ==
    (runs >= 1 /\ fileio = "ok") =>
        \A n \in 1..Len(SourceTree) :
            (SourceTree[n].tag = "table" /\ CaptionOf(once, n) = 0) =>
                TableNamed(once, n, SourceTree)

\* the same for the tables that enclose no caption at any depth
C23_TableLabellingNoNestedCaption ==
    (runs >= 1 /\ fileio = "ok") =>
        \A n \in 1..Len(SourceTree) :
            (SourceTree[n].tag = "table" /\ WithTag(once, n, "caption") = <<>>) =>
                TableNamed(once, n, SourceTree)

----------------------------------------------------------------------------
(* The 'test' command, checked under SpecTest *)

AllChecksOn ==
    [ indicateExternalLinks |-> TRUE, checkAccessibility |-> TRUE, checkWCAG |-> TRUE,
      checkHeadingHierarchy |-> TRUE, checkColorContrast |-> TRUE, validateHTML |-> TRUE,
      checkARIA |-> TRUE, checkKeyboardAccessibility |-> TRUE,
      checkScreenReaderAnnouncements |-> TRUE ]

\* C24: the build of the 'test' command checks each page with accessibility
\* checking and all seven rule checks enabled, whatever the loaded user
\* configuration says: the issues are those of the checker with every flag on.
C24_TestCommandForcesChecks ==
    (pc = "built" /\ fileio = "ok") =>
        issues = checkAccessibility(Serialize(once), AllChecksOn, host)

\* the same when the user's configuration switches nothing off
C24_TestCommandDefaults ==
    (pc = "built" /\ fileio = "ok" /\ config = defaultConfig) =>
        issues = checkAccessibility(Serialize(once), AllChecksOn, host)

----------------------------------------------------------------------------
(* The page controls, checked under SpecPage *)

\* the four places the mode is kept in agree on the value on
ModeIs(u, on) ==
    /\ u.stylesheetDisabled = ~on
    /\ u.ariaPressed = BoolStr(on)
    /\ u.highContrast = BoolStr(on)
    /\ u.rootClass = on

\* C29: each click on the high-contrast button flips the mode once: afterwards
\* the stylesheet's enabled state, aria-pressed, the stored preference and the
\* root's class agree and are the negation of what they were before the click.
C29_HighContrastFlips ==
    [][ClickHighContrast => ModeIs(page', page.stylesheetDisabled)]_vars

\* one listener alone flips the mode
C29_OneListenerFlips ==
    page.loaded => ModeIs(ToggleListener(page), page.stylesheetDisabled)

\* C30: on a page loaded without a saved size, after any clicks on decrease,
\* reset and increase the font size is a multiple of 10 from 80 to 200, and once
\* a click has changed it the stored size is the size applied to the root.
C30_FontSizeBounds ==
    (page.loaded /\ page.savedSize = 0) =>
        /\ \A k \in 1..Len(page.currentSize) :
              /\ page.currentSize[k] \in 80..200
              /\ page.currentSize[k] % 10 = 0
        /\ page.rootFontSize # 0 =>
              /\ page.rootFontSize \in 80..200
              /\ page.rootFontSize % 10 = 0
              /\ page.preferredFontSize = page.rootFontSize
              /\ \A k \in 1..Len(page.currentSize) : page.currentSize[k] = page.rootFontSize
        /\ page.rootFontSize = 0 =>
              /\ page.preferredFontSize = 0
              /\ \A k \in 1..Len(page.currentSize) : page.currentSize[k] = 100

C30_Witness ==
    /\ page.loaded
    /\ page.savedSize = 0
    /\ page.rootFontSize = 200
    /\ page.preferredFontSize = 200

----------------------------------------------------------------------------
(* The enhancer's roles under the ARIA check, checked under SpecRoles *)

\* the role values the enhancer writes
EnhancerRoles ==
    { <<"main">>, <<"banner">>, <<"contentinfo">>, <<"complementary">>, <<"table">>,
      <<"row">>, <<"cell">>, <<"region">> }

RolesIn(t) == { GetAttr(t, n, "role") : n \in { m \in 1..Len(t) : HasAttr(t, m, "role") } }

\* the role values the ARIA check calls invalid in the serialized tree t
InvalidRolesOf(arias, t) ==
    { GetAttr(t, arias[k].el, "role") :
        k \in { j \in 1..Len(arias) : Head(arias[j].msg) = "Invalid ARIA role: \"" } }

InvalidRolesAudited(t) == InvalidRolesOf(checkARIAUsage(t).issues, t)

\* C26: every role the enhancer writes is a valid role for the ARIA check, so the
\* check of the enhanced document calls invalid only role values the source
\* document already had.
C26_EnhancerRolesValid ==
    runs >= 1 =>
        /\ RolesIn(once) \subseteq RolesIn(SourceTree) \cup EnhancerRoles
        /\ InvalidRolesAudited(ParseDocument(Serialize(once))) \subseteq RolesIn(SourceTree)
        /\ InvalidRolesAudited(ParseDocument(Serialize(once))) \cap EnhancerRoles = {}

C26_Witness ==
    /\ runs >= 1
    /\ <<"region">> \in RolesIn(once)
    /\ <<"main">> \in RolesIn(once)
    /\ InvalidRolesAudited(ParseDocument(Serialize(once))) = { <<"bar">> }

----------------------------------------------------------------------------
(* The preview server and the watcher, checked under SpecServer *)

\* C25: the handler of a file-change event calls server.notifyChanges only once
\* the generateDocs run it started has completed with success, never when that
\* run fails or throws, and never when the preview server is not running.
C25_NotifyAfterSuccessfulRebuild ==
    [][\A e \in 1..MaxEvents :
          (rebuild'[e].notified /\ ~rebuild[e].notified) =>
              /\ rebuild[e].pc = "building"
              /\ rebuild'[e].pc = "done"
              /\ rebuild'[e].result = "success"
              /\ srv.server # 0
              /\ srv'.calls = srv.calls + 1]_vars

C25_Witness ==
    /\ \E e \in 1..MaxEvents : rebuild[e].notified /\ rebuild[e].result = "success"
    /\ \E e \in 1..MaxEvents : rebuild[e].pc = "done" /\ rebuild[e].result = "throws"
    /\ srv.changes # <<>>

\* C27: after any start, stop and notifyChanges calls the server and io references
\* are both set or both null, isRunning() is true exactly when the last of the
\* start and stop calls was a start, and a 'changes' event is emitted only while
\* the server is running.
C27_ServerLifecycle ==
    /\ [](/\ (srv.server = 0) <=> (srv.io = 0)
          /\ isRunning(srv) <=> (srv.lastCall = "start"))
    /\ [][Len(srv'.changes) > Len(srv.changes) =>
              (srv.lastCall = "start" /\ srv'.changes = Append(srv.changes, srv.io))]_vars

C27_Witness ==
    /\ srv.starts = MaxStarts
    /\ srv.lastCall = "stop"
    /\ srv.server = 0
    /\ srv.changes # <<>>

----------------------------------------------------------------------------
(* Live testing, checked under SpecSocket *)

\* one reply for each message the server has handled, none in advance
RepliesMatch(cl) ==
    IF cl.pc = "checking" THEN cl.replies + 1 = cl.received ELSE cl.replies = cl.received

\* C28: for every 'test-accessibility' message the server receives on a socket it
\* emits exactly one 'accessibility-results' message on that socket, whether the
\* check succeeds or fails, and the button the click disabled is enabled again.
C28_OneReplyPerRequest ==
    /\ [](\A c \in 1..MaxClients : RepliesMatch(client[c]))
    /\ \A c \in 1..MaxClients :
          /\ (client[c].pc = "checking") ~> (client[c].pc = "replying")
          /\ client[c].disabled ~> ~client[c].disabled

C28_Witness ==
    /\ client[1].received = MaxRequests
    /\ client[1].replies = MaxRequests
    /\ client[1].pc = "idle"
    /\ client[1].results = <<"error">>
    /\ client[2].pc = "checking"
    /\ srv.server = 0

====
